---------------------------- MODULE Spec2Model ----------------------------
(***************************************************************************)
(* A model of gTorrent: the download orchestrator (worker pool, piece      *)
(* queue), the multi-file writeback, the tracker fan-out, the per-piece    *)
(* peer iteration, the verifier and the bencode codec.  Each subsystem has *)
(* its own group of variables and its own specification; the variables of  *)
(* the other groups keep their idle values.                                *)
(***************************************************************************)
EXTENDS Integers, Sequences, FiniteSets, TLC

VARIABLES
    \* ---- download orchestrator: startDownloadFromPeers ----
    numPeers,      \* len(peers)
    totalPieces,   \* len(tor.Pieces)
    mainPc,        \* position of the calling goroutine
    result,        \* what startDownloadFromPeers returned
    downloaded,    \* downloaded []bool
    pieceQueue,    \* buffered channel of piece indices (its content)
    queueClosed,   \* close(pieceQueue) was executed
    wpc,           \* position of each worker goroutine
    wpiece,        \* pieceIndex of each worker
    wbuf,          \* piece returned by downloadPieceFromPeers
    errChan,       \* number of errors buffered in errChan
    errClosed,     \* close(errChan) was executed
    doneClosed,    \* close(doneChan) was executed
    closerPc,      \* position of the goroutine around wg.Wait()
    disk,          \* what each piece's byte range on disk holds
    failures,      \* failed attempts so far (bounded by MaxFailures)
    \* ---- writeback: writePiece ----
    wfLens,        \* file.Length of each file of tor.FileList
    wfPieceLength, \* tor.PieceLength
    wfContent,     \* the bytes of each file on disk
    wfWritten,     \* the piece indices writePiece was run for
    wfPanic,       \* a writePiece call panicked
    \* ---- tracker fan-out: DownloadTorrent ----
    dtAnnounce,    \* tor.AnnounceList: whether NewTracker accepts each URL
    dtPc,          \* position of DownloadTorrent
    dtTask,        \* the tracker goroutines: position, reply, loop index
    dtPeers,       \* the keys of the peers map
    dtWriters,     \* goroutines inside an assignment to the peers map
    dtRaced,       \* of those, the ones another map access overlapped
    dtCreated,     \* how often mainDB.CreatePeer was called per ip:port
    dtRecord,      \* the tracker records of dlModel.Trackers
    \* ---- peer iteration: downloadPieceFromPeers ----
    cpPeers,       \* len(peers): the peers in the order the loop visits them
    cpK,           \* the peer of the current iteration
    cpPos,         \* position inside the iteration
    cpConn,        \* per peer: the state of the TCP connection
    cpExit,        \* per peer: how the attempt on it was left
    cpDeferred,    \* the deferred state.close() calls, oldest first
    cpResult,      \* what the call returned
    \* ---- verifier: VerifyTorrent ----
    vfLens,        \* the lengths of torrent.FileList
    vfPieceLength, \* torrent.PieceLength
    vfHashes,      \* torrent.Pieces
    vfDisk,        \* the files under contentPath: their bytes, or missing
    vfFileIndex,   \* fileIndex of the loop over torrent.FileList, from 1
    vfOffset,      \* the read position in the open file
    vfPieceBuf,    \* the array of pieceBuf
    vfPiece,       \* the slice piece: its own bytes, or a prefix of pieceBuf
    vfPieceIndex,  \* pieceIndex
    vfResult,      \* what VerifyTorrent returned
    \* ---- metainfo: TorrentFromBytes ----
    ihDoc,         \* the bytes given to TorrentFromBytes
    ihStatus,      \* how the call ended
    ihHash,        \* torrent.InfoHash
    \* ---- codec: Decode and Encode on one input ----
    bcArray,       \* the array of the slice given to Decode, up to its capacity
    bcLen,         \* len(content)
    bcValue,       \* the value the content was encoded from, if any
    bcPc,          \* input, decoded, encoded, or encode panicked
    bcOut,         \* what Decode returned
    bcBytes,       \* what Encode returned for the decoded value
    \* ---- bitfield: HasPiece and SetPiece ----
    bfNum,         \* num_pieces of the torrent the bitfield is for
    bfBytes,       \* the bytes of the bitfield
    bfBefore,      \* the bytes before the last SetPiece
    bfIndex,       \* the index of the last SetPiece
    bfSets,        \* how many SetPiece calls were made
    \* ---- framing: Message.Serialize and ReadMessage ----
    msType,        \* m.Type
    msPayload,     \* m.Payload
    msTrail,       \* the bytes that follow the message on the stream
    msPc,          \* message, serialized, read
    msWire,        \* what Serialize returned
    msRead,        \* what ReadMessage returned, and what it left on the stream
    \* ---- handshake: PerformHandshake on one connection ----
    hsPeer,        \* the handshake the peer sends: pstr, reserved, hash, id
    hsReply,       \* the bytes of it that arrive before the deadline
    hsWriteOk,     \* conn.Write of the own handshake succeeds
    hsPc,          \* position of the attempt on this peer
    hsResult,      \* what PerformHandshake returned
    hsSent,        \* the messages sent on the connection, in order
    \* ---- tracker factory: NewTracker on one announce URL ----
    trAnnounce,    \* the announce URL, a sequence of characters
    trPc,          \* position of the call
    trResult,      \* the tracker variant and the error returned
    \* ---- piece accounting: file ranges and expected piece lengths ----
    paFiles,       \* the lengths of the files of the metainfo, in order
    paPieceLength, \* tor.PieceLength
    paLength,      \* tor.Length
    paRanges,      \* per file: FirstPieceIndex and LastPieceIndex
    paExpected,    \* the lengths expected for the pieces asked for so far
    paPc,          \* position of the run
    \* ---- progress reporter and the end of startDownloadFromPeers ----
    rpTotal,       \* totalPieces
    rpCompleted,   \* how many downloaded[i] are true
    rpWorkers,     \* running, or exited (every wg.Done() has run)
    rpDoneClosed,  \* doneChan is closed
    rpErrClosed,   \* errChan is closed
    rpMainPc,      \* position of the main goroutine
    rpResult,      \* what startDownloadFromPeers returned
    rpRepPc,       \* position of the progress goroutine
    rpProgress,    \* the reporter's local variable progress
    rpTicks,       \* how often the ticker has fired
    rpModel,       \* dlModel: status, progress, completedAt
    rpStore,       \* the records saved by mainDB.UpdateDownload, in order
    rpMutex,       \* who holds downloadMutex
    \* ---- peer session: first message, Interested, the request loop ----
    ssNumPieces,       \* len(tor.Pieces)
    ssPieceIndex,      \* pieceIndex
    ssPieceLength,     \* pieceLength
    ssPc,              \* position of the attempt on this peer
    ssChoked,          \* state.peerChoked
    ssBitfield,        \* state.bitfield
    ssPieceBuf,        \* pieceBuf, as runs of equal bytes
    ssDownloadedBytes, \* downloadedBytes
    ssRequestedBlocks, \* requestedBlocks
    ssReceivedBlocks,  \* receivedBlocks
    ssBacklog,         \* backlog
    ssSent,            \* the messages written to the connection, in order
    ssReads,           \* how many messages were read in the request loop
    ssLast,            \* the message read last
    ssLastChoke,       \* the last of choke and unchoke the peer has sent
    ssOutstanding,     \* offsets requested and not yet answered by a piece
    ssResult,          \* what downloadPieceFromChokedPeer returned
    \* ---- UDP tracker: udpTracker.GetPeers ----
    utPc,          \* position in GetPeers
    utSocket,      \* t.conn: none, open or closed
    utT,           \* the fields of the udpTracker
    utSent,        \* the requests written to the socket in this call
    utReplies,     \* what was read from the socket in this call
    utResult,      \* what GetPeers returned
    utCalls,       \* calls of GetPeers on this tracker so far
    \* ---- createEmptyFiles and the start of startDownloadFromPeers ----
    ceList,        \* tor.FileList: path components and length of each file
    ceNumPieces,   \* len(tor.Pieces)
    ceK,           \* position of the loop over tor.FileList
    cePc,          \* position in the code
    ceFiles,       \* the files on disk: path from downloadPath, and length
    ceDirs,        \* the directories on disk, as paths from downloadPath
    ceFailed,      \* MkdirAll, Create or Truncate has failed
    ceResult,      \* what startDownloadFromPeers returned
    ceStarted      \* the workers have been started

orchVars == <<numPeers, totalPieces, mainPc, result, downloaded, pieceQueue,
              queueClosed, wpc, wpiece, wbuf, errChan, errClosed, doneClosed,
              closerPc, disk, failures>>

wfVars == <<wfLens, wfPieceLength, wfContent, wfWritten, wfPanic>>

dtVars == <<dtAnnounce, dtPc, dtTask, dtPeers, dtWriters, dtRaced, dtCreated,
            dtRecord>>

cpVars == <<cpPeers, cpK, cpPos, cpConn, cpExit, cpDeferred, cpResult>>

vfVars == <<vfLens, vfPieceLength, vfHashes, vfDisk, vfFileIndex, vfOffset,
            vfPieceBuf, vfPiece, vfPieceIndex, vfResult>>

ihVars == <<ihDoc, ihStatus, ihHash>>

bcVars == <<bcArray, bcLen, bcValue, bcPc, bcOut, bcBytes>>

bfVars == <<bfNum, bfBytes, bfBefore, bfIndex, bfSets>>

msVars == <<msType, msPayload, msTrail, msPc, msWire, msRead>>

hsVars == <<hsPeer, hsReply, hsWriteOk, hsPc, hsResult, hsSent>>

trVars == <<trAnnounce, trPc, trResult>>

paVars == <<paFiles, paPieceLength, paLength, paRanges, paExpected, paPc>>

rpVars == <<rpTotal, rpCompleted, rpWorkers, rpDoneClosed, rpErrClosed,
    rpMainPc, rpResult, rpRepPc, rpProgress, rpTicks, rpModel, rpStore,
           rpMutex>>

ssVars == <<ssNumPieces, ssPieceIndex, ssPieceLength, ssPc, ssChoked,
    ssBitfield, ssPieceBuf, ssDownloadedBytes, ssRequestedBlocks,
    ssReceivedBlocks, ssBacklog, ssSent, ssReads, ssLast, ssLastChoke,
    ssOutstanding, ssResult>>

utVars == <<utPc, utSocket, utT, utSent, utReplies, utResult, utCalls>>

ceVars == <<ceList, ceNumPieces, ceK, cePc, ceFiles, ceDirs, ceFailed,
    ceResult, ceStarted>>

vars == <<orchVars, wfVars, dtVars, cpVars, vfVars, ihVars, bcVars, bfVars,
    msVars, hsVars, trVars, paVars, rpVars, ssVars, utVars, ceVars>>

-----------------------------------------------------------------------------
(* Bounds of the model *)

\* The metainfos of the orchestrator have up to MaxPieces pieces, and its
\* runs up to MaxFailures failed attempts (a failed download, a hash mismatch
\* or a failed write).
MaxPieces == 2
MaxFailures == 2

\* The metainfos of the writeback have up to MaxFiles files of up to
\* MaxFileLen bytes and a piece length of up to MaxPieceLen bytes.
MaxFiles == 3
MaxFileLen == 2
MaxPieceLen == 3

\* The metainfos of the fan-out have up to MaxTrackers announce URLs.
MaxTrackers == 2

\* downloadPieceFromPeers is called with up to MaxConnPeers peers.
MaxConnPeers == 3

\* The info dictionaries of the corpus have up to MaxInfoEntries entries.
MaxInfoEntries == 3

\* The lists and dictionaries of the codec runs have up to MaxCodecLen
\* entries.
MaxCodecLen == 2

\* Up to MaxSets calls of SetPiece on a bitfield.
MaxSets == 2

\* The payloads of the framing runs have up to MaxPayload bytes.
MaxPayload == 2

\* Up to MaxHsRequests request messages are sent on a connection.
MaxHsRequests == 2

\* The ticker of the progress goroutine fires up to MaxTicks times in a run.
MaxTicks == 2

\* Up to MaxMessages messages are read in the request loop of a session.
MaxMessages == 4

\* GetPeers is called up to MaxCalls times on one tracker.
MaxCalls == 2

\* tor.FileList has up to MaxEntries files in the runs of createEmptyFiles.
MaxEntries == 2

\* len(peers) of the orchestrator's runs: one peer gives the 5 workers of the
\* floor.
PeerCounts == {1}

\* len(peers) of the runs in which every peer delivers: 5 and 10 workers.
DeliverPeerCounts == {1, 2}

-----------------------------------------------------------------------------
(* Writeback: writePiece over the files of the metainfo *)

RECURSIVE SumLens(_, _)
\* currentOffset before file f: the lengths of the files listed before it.
SumLens(lens, f) == IF f <= 1 THEN 0 ELSE SumLens(lens, f - 1) + lens[f - 1]

\* tor.Length
TotalLength(lens) == SumLens(lens, Len(lens) + 1)

\* len(tor.Pieces) of a metainfo: ceil(total_length / piece_length).
NumPieces(total, pl) == (total + pl - 1) \div pl

\* The buffer of length total_length; byte k has the value k, so every byte
\* is told from every other and from the zeros of the pre-allocation.
Buffer(total) == [k \in 1..total |-> k]

\* Piece i of the buffer: piece_length bytes, fewer for the last piece.
PieceOf(buf, pl, i) ==
    LET from == i * pl
        to == IF from + pl > Len(buf) THEN Len(buf) ELSE from + pl
    IN  SubSeq(buf, from + 1, to)

\* f.Truncate(file.Length) on a new file: file.Length zero bytes.
EmptyFile(n) == [k \in 1..n |-> 0]

\* f.Seek(off, io.SeekStart); f.Write(d): the bytes from off on are replaced,
\* and a write past the end extends the file.
WriteAt(c, off, d) ==
    LET end == IF off + Len(d) > Len(c) THEN off + Len(d) ELSE Len(c)
    IN  [k \in 1..end |->
            IF k > off /\ k <= off + Len(d) THEN d[k - off]
            ELSE IF k <= Len(c) THEN c[k] ELSE 0]

\* pieceOffset < fileEnd && pieceOffset+pieceLength > fileStart
Overlaps(pieceOffset, pieceLength, fileStart, fileEnd) ==
    pieceOffset < fileEnd /\ pieceOffset + pieceLength > fileStart

\* The seek forgotten: every file is written from its start.
PieceStartInFileZero(pieceOffset, fileStart) == 0

\* pieceStartInFile
PieceStartInFile(pieceOffset, fileStart) ==
    IF pieceOffset > fileStart THEN pieceOffset - fileStart ELSE 0

\* The offset into the buffer forgotten: every file gets the buffer's start.
FileStartInPieceZero(pieceOffset, fileStart) == 0

\* fileStartInPiece
FileStartInPiece(pieceOffset, fileStart) ==
    IF fileStart > pieceOffset THEN fileStart - pieceOffset ELSE 0

\* bytesToWrite
BytesToWrite(pieceOffset, pieceLength, fileStart, fileEnd) ==
    LET fsp == FileStartInPiece(pieceOffset, fileStart)
    IN  IF fileEnd < pieceOffset + pieceLength
          THEN fileEnd - (pieceOffset + fsp)
          ELSE pieceLength - fsp

RECURSIVE WritePieceFrom(_, _, _, _, _, _)
\* The loop of writePiece from file f on: the files afterwards, and whether
\* the slice expression pieceData[a:b] was out of range (a panic).
WritePieceFrom(st, lens, pl, pieceIndex, pieceData, f) ==
    IF f > Len(lens) \/ st.panic THEN st
    ELSE
      LET pieceOffset == pieceIndex * pl
          pieceLength == Len(pieceData)
          fileStart == SumLens(lens, f)
          fileEnd == fileStart + lens[f]
          psf == PieceStartInFile(pieceOffset, fileStart)
          fsp == FileStartInPiece(pieceOffset, fileStart)
          n == BytesToWrite(pieceOffset, pieceLength, fileStart, fileEnd)
          next ==
            IF ~Overlaps(pieceOffset, pieceLength, fileStart, fileEnd)
              THEN st
            ELSE IF n < 0 \/ fsp + n > pieceLength
              THEN [st EXCEPT !.panic = TRUE]
            ELSE [st EXCEPT
                    !.files[f] = WriteAt(st.files[f], psf,
                                         SubSeq(pieceData, fsp + 1, fsp + n))]
      IN  WritePieceFrom(next, lens, pl, pieceIndex, pieceData, f + 1)

\* writePiece(tor, pieceIndex, pieceData, downloadPath) when every file
\* operation succeeds: the content of the files afterwards.
WritePiece(content, lens, pl, pieceIndex, pieceData) ==
    WritePieceFrom([files |-> content, panic |-> FALSE], lens, pl, pieceIndex,
                   pieceData, 1)

RECURSIVE ConcatFrom(_, _)
\* The files from f on, one after the other in listed order.
ConcatFrom(content, f) ==
    IF f > Len(content) THEN <<>> ELSE content[f] \o ConcatFrom(content, f + 1)

Concat(content) == ConcatFrom(content, 1)

\* The file lists of the model: 1..MaxFiles files of 0..MaxFileLen bytes.
FileLists == UNION {[1..n -> 0..MaxFileLen] : n \in 1..MaxFiles}

WbIdle ==
    /\ wfLens = <<>> /\ wfPieceLength = 0 /\ wfContent = <<>>
    /\ wfWritten = {} /\ wfPanic = FALSE

\* A metainfo with at least one byte, and its files as createEmptyFiles
\* leaves them.
WbInit ==
    /\ wfLens \in FileLists
    /\ TotalLength(wfLens) > 0
    /\ wfPieceLength \in 1..MaxPieceLen
    /\ wfContent = [f \in 1..Len(wfLens) |-> EmptyFile(wfLens[f])]
    /\ wfWritten = {}
    /\ wfPanic = FALSE

WbPieces == 0..(NumPieces(TotalLength(wfLens), wfPieceLength) - 1)

\* writePiece for a piece that was not written yet, with its part of the
\* buffer.
WbWritePiece(i) ==
    /\ ~wfPanic
    /\ i \notin wfWritten
    /\ LET r == WritePiece(wfContent, wfLens, wfPieceLength, i,
                           PieceOf(Buffer(TotalLength(wfLens)),
                                   wfPieceLength, i))
       IN  wfContent' = r.files /\ wfPanic' = r.panic
    /\ wfWritten' = wfWritten \cup {i}
    /\ UNCHANGED <<wfLens, wfPieceLength>>

-----------------------------------------------------------------------------
(* Tracker fan-out: DownloadTorrent *)

\* torrent.PeerMe(): the client's own address.
Me == [ip |-> "198.51.100.7", port |-> 6881]
ZeroPeer == [ip |-> "0.0.0.0", port |-> 6881]
PeerA == [ip |-> "192.0.2.1", port |-> 6881]
PeerB == [ip |-> "192.0.2.2", port |-> 51413]

\* Peer.String(): "ip:port".
PeerString(p) == <<p.ip, ":", p.port>>

NoReply == <<[ip |-> "none", port |-> 0]>>

\* What tr.GetPeers may return: an error (NoReply), or a list of peers.
TrackerReplies ==
    {NoReply, <<>>, <<PeerA>>, <<PeerB>>, <<PeerA, PeerB>>, <<Me, PeerA>>,
     <<ZeroPeer, PeerB>>, <<PeerA, PeerA>>}

\* The peer is skipped: the client itself, or the address 0.0.0.0.
Skipped(p) == PeerString(p) = PeerString(Me) \/ p.ip = "0.0.0.0"

RECURSIVE ValidIndices(_, _)
\* The announce URLs NewTracker accepted, in order: the trackers slice.
ValidIndices(ann, a) ==
    IF a > Len(ann) THEN <<>>
    ELSE (IF ann[a] = "valid" THEN <<a>> ELSE <<>>) \o ValidIndices(ann, a + 1)

Trackers == ValidIndices(dtAnnounce, 1)
Tasks == 1..Len(Trackers)

DtIdle ==
    /\ dtAnnounce = <<>> /\ dtPc = "idle" /\ dtTask = <<>> /\ dtPeers = {}
    /\ dtWriters = {} /\ dtRaced = {} /\ dtCreated = <<>> /\ dtRecord = <<>>

\* After CreateDownload: one tracker record per announce URL.
DtInit ==
    /\ dtAnnounce \in UNION {[1..n -> {"valid", "invalid"}] : n \in 1..MaxTrackers}
    /\ dtPc = "create"
    /\ dtTask = <<>>
    /\ dtPeers = {}
    /\ dtWriters = {} /\ dtRaced = {}
    /\ dtCreated = [k \in {PeerString(PeerA), PeerString(PeerB)} |-> 0]
    /\ dtRecord = [a \in 1..Len(dtAnnounce) |->
                      [status |-> "announcing", by |-> 0, peers |-> {}]]

\* The trackers are made; without a valid one DownloadTorrent returns an
\* error, otherwise one goroutine per tracker is started.
DtSpawn ==
    /\ dtPc = "create"
    /\ IF Len(Trackers) = 0
         THEN dtPc' = "returned_err" /\ UNCHANGED dtTask
         ELSE /\ dtPc' = "wait"
              /\ dtTask' = [t \in Tasks |->
                               [pc |-> "getpeers", list |-> <<>>, k |-> 1]]
    /\ UNCHANGED <<dtAnnounce, dtPeers, dtWriters, dtRaced, dtCreated,
                   dtRecord>>

\* trackerModel := &dlModel.Trackers[trIndex]: the record a task updates.
RecordOf(t) == t

\* tr.GetPeers returned; on an error the record is updated and the task ends.
DtGetPeers(t) ==
    /\ dtPc = "wait" /\ dtTask[t].pc = "getpeers"
    /\ \E r \in TrackerReplies :
          IF r = NoReply
            THEN /\ dtTask' = [dtTask EXCEPT ![t].pc = "done", ![t].list = r]
                 /\ dtRecord' = [dtRecord EXCEPT
                                   ![RecordOf(t)].status = "error",
                                   ![RecordOf(t)].by = Trackers[t]]
            ELSE /\ dtTask' = [dtTask EXCEPT
                                 ![t].pc = IF r = <<>> THEN "update"
                                           ELSE "lookup",
                                 ![t].list = r]
                 /\ dtRecord' = [dtRecord EXCEPT
                                   ![RecordOf(t)].status = "complete",
                                   ![RecordOf(t)].by = Trackers[t]]
    /\ UNCHANGED <<dtAnnounce, dtPc, dtPeers, dtWriters, dtRaced, dtCreated>>

\* The position after the loop body for element k.
AfterPeer(t) ==
    IF dtTask[t].k = Len(dtTask[t].list)
      THEN [dtTask EXCEPT ![t].pc = "update"]
      ELSE [dtTask EXCEPT ![t].pc = "lookup", ![t].k = @ + 1]

\* The two filters and _, ok := peers[peer.String()].  The read is not
\* synchronized: while another goroutine is inside an assignment to the map
\* the runtime may abort the program ("concurrent map read and map write").
DtLookup(t) ==
    /\ dtPc = "wait" /\ dtTask[t].pc = "lookup"
    /\ LET peer == dtTask[t].list[dtTask[t].k]
       IN  IF Skipped(peer)
             THEN dtTask' = AfterPeer(t) /\ UNCHANGED dtPc
             ELSE \E fatal \in {FALSE, dtWriters # {}} :
                    IF fatal
                      THEN dtPc' = "crashed" /\ UNCHANGED dtTask
                      ELSE /\ UNCHANGED dtPc
                           /\ dtTask' =
                                 IF PeerString(peer) \in dtPeers
                                   THEN AfterPeer(t)
                                   ELSE [dtTask EXCEPT ![t].pc = "insert"]
    /\ UNCHANGED <<dtAnnounce, dtPeers, dtWriters, dtRaced, dtCreated,
                   dtRecord>>

\* peers[peer.String()] = peer begins.  The assignment is not synchronized:
\* assignments of several goroutines may overlap.
DtBeginInsert(t) ==
    /\ dtPc = "wait" /\ dtTask[t].pc = "insert"
    /\ dtTask' = [dtTask EXCEPT ![t].pc = "writing"]
    /\ dtWriters' = dtWriters \cup {t}
    /\ dtRaced' = IF dtWriters = {} THEN dtRaced ELSE dtRaced \cup dtWriters \cup {t}
    /\ UNCHANGED <<dtAnnounce, dtPc, dtPeers, dtCreated, dtRecord>>

\* What an assignment to the map may do: store the key; and, when it
\* overlapped another assignment, also lose the key or abort the program
\* ("concurrent map writes").
InsertOutcomes(t) ==
    IF t \in dtRaced THEN {"stored", "lost", "fatal"} ELSE {"stored"}

\* peers[peer.String()] = peer ends.
DtEndInsert(t) ==
    /\ dtPc = "wait" /\ dtTask[t].pc = "writing"
    /\ \E o \in InsertOutcomes(t) :
          /\ dtPc' = IF o = "fatal" THEN "crashed" ELSE dtPc
          /\ dtPeers' = IF o = "stored"
                          THEN dtPeers \cup
                                 {PeerString(dtTask[t].list[dtTask[t].k])}
                          ELSE dtPeers
    /\ dtTask' = [dtTask EXCEPT ![t].pc = "create"]
    /\ dtWriters' = dtWriters \ {t}
    /\ dtRaced' = dtRaced \ {t}
    /\ UNCHANGED <<dtAnnounce, dtCreated, dtRecord>>

\* mainDB.CreatePeer(trackerModel, peer)
DtCreatePeer(t) ==
    /\ dtPc = "wait" /\ dtTask[t].pc = "create"
    /\ LET key == PeerString(dtTask[t].list[dtTask[t].k])
       IN  /\ dtCreated' = [dtCreated EXCEPT ![key] = @ + 1]
           /\ dtRecord' = [dtRecord EXCEPT
                             ![RecordOf(t)].peers = @ \cup {key}]
    /\ dtTask' = AfterPeer(t)
    /\ UNCHANGED <<dtAnnounce, dtPc, dtPeers, dtWriters, dtRaced>>

\* trackerModel.LastCheck and mainDB.UpdateTracker; the deferred wg.Done().
DtUpdate(t) ==
    /\ dtPc = "wait" /\ dtTask[t].pc = "update"
    /\ dtTask' = [dtTask EXCEPT ![t].pc = "done"]
    /\ UNCHANGED <<dtAnnounce, dtPc, dtPeers, dtWriters, dtRaced, dtCreated,
                   dtRecord>>

\* What DownloadTorrent does after wg.Wait(): without a peer it returns nil,
\* otherwise it calls startDownloadFromPeers.
AfterJoin(peers) == IF peers = {} THEN "returned_nil" ELSE "called"

\* wg.Wait() returns.
DtJoin ==
    /\ dtPc = "wait"
    /\ \A t \in Tasks : dtTask[t].pc = "done"
    /\ dtPc' = AfterJoin(dtPeers)
    /\ UNCHANGED <<dtAnnounce, dtTask, dtPeers, dtWriters, dtRaced, dtCreated,
                   dtRecord>>

\* The keys the claim expects in the map: every peer of every reply, without
\* the skipped ones.
DtExpected ==
    LET replied == {t \in Tasks : dtTask[t].list # NoReply}
        got == UNION {{dtTask[t].list[k] : k \in 1..Len(dtTask[t].list)} :
                        t \in replied}
    IN  {PeerString(p) : p \in {q \in got : ~Skipped(q)}}

-----------------------------------------------------------------------------
(* Peer iteration: downloadPieceFromPeers *)

CpIdle ==
    /\ cpPeers = 0 /\ cpK = 0 /\ cpPos = "idle" /\ cpConn = <<>>
    /\ cpExit = <<>> /\ cpDeferred = <<>> /\ cpResult = "none"

\* The call, at the first iteration of the loop over peers.
CpInit ==
    /\ cpPeers \in 1..MaxConnPeers
    /\ cpK = 1
    /\ cpPos = "dial"
    /\ cpConn = [k \in 1..cpPeers |-> "none"]
    /\ cpExit = [k \in 1..cpPeers |-> "none"]
    /\ cpDeferred = <<>>
    /\ cpResult = "none"

RECURSIVE RunDeferred(_, _)
\* The deferred calls run when the function returns, the last one first;
\* peerConnectionState.close closes the connection.
RunDeferred(conn, deferred) ==
    IF deferred = <<>> THEN conn
    ELSE RunDeferred([conn EXCEPT ![deferred[Len(deferred)]] = "closed"],
                     SubSeq(deferred, 1, Len(deferred) - 1))

\* The function returns res: the deferred calls run.
CpReturn(res) ==
    /\ cpPos' = "returned"
    /\ cpResult' = res
    /\ cpConn' = RunDeferred(cpConn, cpDeferred)
    /\ cpDeferred' = <<>>
    /\ UNCHANGED cpK

\* continue: the next peer, or after the last one the return of the error.
CpContinue(reason) ==
    /\ cpExit' = [cpExit EXCEPT ![cpK] = reason]
    /\ IF cpK < cpPeers
         THEN /\ cpK' = cpK + 1
              /\ cpPos' = "dial"
              /\ UNCHANGED <<cpConn, cpDeferred, cpResult>>
         ELSE CpReturn("error")
    /\ UNCHANGED cpPeers

\* The step at position pos succeeded: the iteration goes on at next.
CpProceed(next) ==
    /\ cpPos' = next
    /\ UNCHANGED <<cpPeers, cpK, cpConn, cpExit, cpDeferred, cpResult>>

\* net.DialTimeout; on success state.conn = conn and defer state.close().
CpDial ==
    /\ cpPos = "dial"
    /\ \/ CpContinue("dial failed")
       \/ /\ cpConn' = [cpConn EXCEPT ![cpK] = "open"]
          /\ cpDeferred' = Append(cpDeferred, cpK)
          /\ cpPos' = "handshake"
          /\ UNCHANGED <<cpPeers, cpK, cpExit, cpResult>>

\* torrent.PerformHandshake
CpHandshake ==
    /\ cpPos = "handshake"
    /\ \/ CpContinue("handshake failed")
       \/ CpProceed("first message")

\* The first message is read and handled, and the bitfield is asked for the
\* piece.
CpFirstMessage ==
    /\ cpPos = "first message"
    /\ \/ \E reason \in {"first message unreadable", "bitfield length invalid",
                          "first message invalid", "peer lacks the piece"} :
             CpContinue(reason)
       \/ CpProceed("interested")

\* The Interested message is sent.
CpInterested ==
    /\ cpPos = "interested"
    /\ \/ CpContinue("send failed")
       \/ CpProceed("session")

\* downloadPieceFromChokedPeer returned: an error, or the piece data.
CpSession ==
    /\ cpPos = "session"
    /\ \/ \E reason \in {"request send failed", "read failed",
                          "piece timeout", "message invalid"} :
             CpContinue(reason)
       \/ /\ cpExit' = [cpExit EXCEPT ![cpK] = "success"]
          /\ CpReturn("piece")
          /\ UNCHANGED cpPeers

-----------------------------------------------------------------------------
(* Download orchestrator *)

NoPiece == -1
NoBuf == [kind |-> "none", piece |-> NoPiece]

\* The buffer that hashes to tor.Pieces[i], and a buffer that does not.
TrueData(i) == [kind |-> "intact", piece |-> i]
CorruptData(i) == [kind |-> "corrupt", piece |-> i]

\* crypto/sha1 as a collision-free digest.
SHA1(buf) == [sha1 |-> buf]

\* tor.Pieces[i]: the digest of the content the metainfo describes.
Pieces(i) == SHA1(TrueData(i))

\* What a piece's byte range holds: the zeros of the pre-allocation, a whole
\* buffer, or the first part of a buffer over older content.
Zeroed == [state |-> "zero", buf |-> NoBuf]
Written(buf) == [state |-> "whole", buf |-> buf]
PartlyWritten(buf) == [state |-> "part", buf |-> buf]

WorkersPerPeer == 5
WorkerCap == 20
WorkerFloor == 5

\* maxWorkers := len(peers) * 5, capped at 20, at least 5.
MaxWorkers(n) ==
    LET m == n * WorkersPerPeer
        c == IF m > WorkerCap THEN WorkerCap ELSE m
    IN  IF c < WorkerFloor THEN WorkerFloor ELSE c

Workers == 1..MaxWorkers(numPeers)
PieceIdx == 0..(totalPieces - 1)

RECURSIVE Iota(_, _)
\* <<from, from+1, ..., to-1>>: the loop that fills the queue.
Iota(from, to) == IF from >= to THEN <<>> ELSE <<from>> \o Iota(from + 1, to)

SeqToSet(s) == {s[k] : k \in 1..Len(s)}

CompletedPieces(d) == Cardinality({i \in DOMAIN d : d[i]})

AllDownloaded == \A i \in PieceIdx : downloaded[i]

OrchStart(peerCounts, pieceCounts) ==
    /\ numPeers \in peerCounts
    /\ totalPieces \in pieceCounts
    /\ mainPc = "setup"
    /\ result = "none"
    /\ downloaded = <<>>
    /\ pieceQueue = <<>>
    /\ queueClosed = FALSE
    /\ wpc = <<>>
    /\ wpiece = <<>>
    /\ wbuf = <<>>
    /\ errChan = 0
    /\ errClosed = FALSE
    /\ doneClosed = FALSE
    /\ closerPc = "idle"
    /\ disk = <<>>
    /\ failures = 0

\* The orchestrator is not running.
OrchIdle ==
    /\ numPeers = 0 /\ totalPieces = 0 /\ mainPc = "idle" /\ result = "none"
    /\ downloaded = <<>> /\ pieceQueue = <<>> /\ queueClosed = FALSE
    /\ wpc = <<>> /\ wpiece = <<>> /\ wbuf = <<>> /\ errChan = 0
    /\ errClosed = FALSE /\ doneClosed = FALSE /\ closerPc = "idle"
    /\ disk = <<>> /\ failures = 0

OrchInit == OrchStart(PeerCounts, 0..MaxPieces)

\* createEmptyFiles fails: the function returns before anything is started.
SetupFail ==
    /\ mainPc = "setup"
    /\ mainPc' = "returned"
    /\ result' = "create_failed"
    /\ UNCHANGED <<numPeers, totalPieces, downloaded, pieceQueue, queueClosed,
                   wpc, wpiece, wbuf, errChan, errClosed, doneClosed, closerPc,
                   disk,
                   failures>>

\* createEmptyFiles succeeded: either there are no pieces, or the bitfield and
\* the queue are made, the queue is filled and the goroutines are started.
Setup ==
    /\ mainPc = "setup"
    /\ IF totalPieces = 0
         THEN /\ mainPc' = "returned"
              /\ result' = "no_pieces"
              /\ UNCHANGED <<downloaded, pieceQueue, wpc, wpiece, wbuf,
                             closerPc, disk, failures>>
         ELSE /\ mainPc' = "drain"
              /\ result' = "none"
              /\ downloaded' = [i \in PieceIdx |-> FALSE]
              /\ pieceQueue' = Iota(0, totalPieces)
              /\ wpc' = [w \in Workers |-> "recv"]
              /\ wpiece' = [w \in Workers |-> NoPiece]
              /\ wbuf' = [w \in Workers |-> NoBuf]
              /\ closerPc' = "wait"
              /\ disk' = [i \in PieceIdx |-> Zeroed]
    /\ UNCHANGED <<numPeers, totalPieces, queueClosed, errChan, errClosed,
                   doneClosed, failures>>

Started == mainPc \in {"drain", "returned"} /\ closerPc # "idle"

\* for pieceIndex := range pieceQueue: an index is received.
Recv(w) ==
    /\ Started /\ wpc[w] = "recv"
    /\ pieceQueue # <<>>
    /\ wpiece' = [wpiece EXCEPT ![w] = Head(pieceQueue)]
    /\ pieceQueue' = Tail(pieceQueue)
    /\ wpc' = [wpc EXCEPT ![w] = "check"]
    /\ UNCHANGED <<numPeers, totalPieces, mainPc, result, downloaded,
                   queueClosed, wbuf, errChan, errClosed, doneClosed, closerPc,
                   disk,
                   failures>>

\* for pieceIndex := range pieceQueue: the queue is closed and drained; the
\* deferred wg.Done() runs.
Exit(w) ==
    /\ Started /\ wpc[w] = "recv"
    /\ pieceQueue = <<>> /\ queueClosed
    /\ wpc' = [wpc EXCEPT ![w] = "exit"]
    /\ UNCHANGED <<numPeers, totalPieces, mainPc, result, downloaded,
                   pieceQueue, queueClosed, wpiece, wbuf, errChan, errClosed,
                   doneClosed, closerPc, disk,
                   failures>>

\* The check of downloaded[pieceIndex] under the mutex.
Check(w) ==
    /\ Started /\ wpc[w] = "check"
    /\ IF downloaded[wpiece[w]]
         THEN /\ wpc' = [wpc EXCEPT ![w] = "recv"]
              /\ wpiece' = [wpiece EXCEPT ![w] = NoPiece]
         ELSE /\ wpc' = [wpc EXCEPT ![w] = "download"]
              /\ UNCHANGED wpiece
    /\ UNCHANGED <<numPeers, totalPieces, mainPc, result, downloaded,
                   pieceQueue, queueClosed, wbuf, errChan, errClosed,
                   doneClosed, closerPc, disk,
                   failures>>

\* The hash check left out: every buffer passes.
HashMismatchNever(buf, i) == FALSE

\* actualHash != expectedHash
HashMismatch(buf, i) == SHA1(buf) # Pieces(i)

\* The piece marked as downloaded as soon as a buffer arrived, before the
\* write.
DownloadReturnsMarked(w, buf) ==
    /\ Started /\ wpc[w] = "download"
    /\ wbuf' = [wbuf EXCEPT ![w] = buf]
    /\ downloaded' = [downloaded EXCEPT ![wpiece[w]] = TRUE]
    /\ wpc' = [wpc EXCEPT ![w] = IF HashMismatch(buf, wpiece[w])
                                   THEN "requeue" ELSE "write"]
    /\ UNCHANGED <<numPeers, totalPieces, mainPc, result,
                   pieceQueue, queueClosed, wpiece, errChan, errClosed,
                   doneClosed, closerPc, disk>>

\* downloadPieceFromPeers returned the buffer buf without error, and the hash
\* check that follows: on a mismatch the index goes back to the queue.
DownloadReturns(w, buf) ==
    /\ Started /\ wpc[w] = "download"
    /\ wbuf' = [wbuf EXCEPT ![w] = buf]
    /\ wpc' = [wpc EXCEPT ![w] = IF HashMismatch(buf, wpiece[w])
                                   THEN "requeue" ELSE "write"]
    /\ UNCHANGED <<numPeers, totalPieces, mainPc, result, downloaded,
                   pieceQueue, queueClosed, wpiece, errChan, errClosed,
                   doneClosed, closerPc, disk>>

DownloadIntact(w) ==
    /\ DownloadReturns(w, TrueData(wpiece[w]))
    /\ UNCHANGED failures

DownloadCorrupt(w) ==
    /\ failures < MaxFailures
    /\ failures' = failures + 1
    /\ DownloadReturns(w, CorruptData(wpiece[w]))

\* downloadPieceFromPeers returned an error: no peer delivered the piece.
DownloadFail(w) ==
    /\ Started /\ wpc[w] = "download"
    /\ failures < MaxFailures
    /\ failures' = failures + 1
    /\ wpc' = [wpc EXCEPT ![w] = "errsend"]
    /\ UNCHANGED <<numPeers, totalPieces, mainPc, result, downloaded,
                   pieceQueue, queueClosed, wpiece, wbuf, errChan, errClosed,
                   doneClosed, closerPc, disk>>

\* writePiece returned nil: the piece's byte range holds the buffer.
WriteOk(w) ==
    /\ Started /\ wpc[w] = "write"
    /\ disk' = [disk EXCEPT ![wpiece[w]] = Written(wbuf[w])]
    /\ wpc' = [wpc EXCEPT ![w] = "mark"]
    /\ UNCHANGED <<numPeers, totalPieces, mainPc, result, downloaded,
                   pieceQueue, queueClosed, wpiece, wbuf, errChan, errClosed,
                   doneClosed, closerPc, failures>>

\* writePiece returned an error: the files written before the failing one
\* keep their part of the buffer.
WriteFail(w) ==
    /\ Started /\ wpc[w] = "write"
    /\ failures < MaxFailures
    /\ failures' = failures + 1
    /\ \E d \in {disk[wpiece[w]], PartlyWritten(wbuf[w])} :
          disk' = [disk EXCEPT ![wpiece[w]] = d]
    /\ wpc' = [wpc EXCEPT ![w] = "errsend"]
    /\ wbuf' = [wbuf EXCEPT ![w] = NoBuf]
    /\ UNCHANGED <<numPeers, totalPieces, mainPc, result, downloaded,
                   pieceQueue, queueClosed, wpiece, errChan, errClosed,
                   doneClosed, closerPc>>

\* errChan <- fmt.Errorf(...): blocks while the buffer of maxWorkers errors is
\* full; a send on a closed channel panics.
ErrSend(w) ==
    /\ Started /\ wpc[w] = "errsend"
    /\ IF errClosed
         THEN /\ wpc' = [wpc EXCEPT ![w] = "panic"]
              /\ UNCHANGED errChan
         ELSE /\ errChan < MaxWorkers(numPeers)
              /\ errChan' = errChan + 1
              /\ wpc' = [wpc EXCEPT ![w] = "requeue"]
    /\ UNCHANGED <<numPeers, totalPieces, mainPc, result, downloaded,
                   pieceQueue, queueClosed, wpiece, wbuf, errClosed,
                   doneClosed, closerPc, disk,
                   failures>>

\* The send left out: the index is dropped.
EnqueueNothing(q, i) == q

\* The content of the queue after pieceQueue <- i.
Enqueue(q, i) == Append(q, i)

\* The re-enqueue without its continue: the worker goes on to write the piece
\* it has just put back.
RequeueNoContinue(w) ==
    /\ Started /\ wpc[w] = "requeue"
    /\ ~queueClosed /\ Len(pieceQueue) < totalPieces
    /\ pieceQueue' = Enqueue(pieceQueue, wpiece[w])
    /\ wpc' = [wpc EXCEPT ![w] = "write"]
    /\ UNCHANGED <<numPeers, totalPieces, mainPc, result, downloaded,
                   queueClosed, wpiece, wbuf, errChan, errClosed, doneClosed,
                   closerPc, disk, failures>>

\* The re-enqueue followed by a return instead of continue: the worker
\* exits.
RequeueThenExit(w) ==
    /\ Started /\ wpc[w] = "requeue"
    /\ ~queueClosed /\ Len(pieceQueue) < totalPieces
    /\ pieceQueue' = Enqueue(pieceQueue, wpiece[w])
    /\ wpc' = [wpc EXCEPT ![w] = "exit"]
    /\ wpiece' = [wpiece EXCEPT ![w] = NoPiece]
    /\ wbuf' = [wbuf EXCEPT ![w] = NoBuf]
    /\ UNCHANGED <<numPeers, totalPieces, mainPc, result, downloaded,
                   queueClosed, errChan, errClosed, doneClosed, closerPc, disk,
                   failures>>

\* pieceQueue <- pieceIndex; continue.  The send blocks while the queue holds
\* totalPieces indices and panics on a closed queue.
Requeue(w) ==
    /\ Started /\ wpc[w] = "requeue"
    /\ IF queueClosed
         THEN /\ wpc' = [wpc EXCEPT ![w] = "panic"]
              /\ UNCHANGED <<pieceQueue, wpiece, wbuf>>
         ELSE /\ Len(pieceQueue) < totalPieces
              /\ pieceQueue' = Enqueue(pieceQueue, wpiece[w])
              /\ wpc' = [wpc EXCEPT ![w] = "recv"]
              /\ wpiece' = [wpiece EXCEPT ![w] = NoPiece]
              /\ wbuf' = [wbuf EXCEPT ![w] = NoBuf]
    /\ UNCHANGED <<numPeers, totalPieces, mainPc, result, downloaded,
                   queueClosed, errChan, errClosed, doneClosed, closerPc, disk,
                   failures>>

\* The comparison off by one: the queue is never closed.
DownloadCompleteOffByOne(d) == CompletedPieces(d) > totalPieces

\* The queue closed as soon as one piece is there.
DownloadCompleteEarly(d) == CompletedPieces(d) >= 1

\* completedPieces == totalPieces
DownloadComplete(d) == CompletedPieces(d) = totalPieces

\* Under the mutex: downloaded[pieceIndex] = true, the count, and the close of
\* the queue when every piece is there (closing a closed channel panics).
Mark(w) ==
    /\ Started /\ wpc[w] = "mark"
    /\ LET d == [downloaded EXCEPT ![wpiece[w]] = TRUE]
       IN  /\ downloaded' = d
           /\ IF DownloadComplete(d)
                THEN IF queueClosed
                       THEN /\ wpc' = [wpc EXCEPT ![w] = "panic"]
                            /\ UNCHANGED <<queueClosed, wpiece, wbuf>>
                       ELSE /\ queueClosed' = TRUE
                            /\ wpc' = [wpc EXCEPT ![w] = "recv"]
                            /\ wpiece' = [wpiece EXCEPT ![w] = NoPiece]
                            /\ wbuf' = [wbuf EXCEPT ![w] = NoBuf]
                ELSE /\ wpc' = [wpc EXCEPT ![w] = "recv"]
                     /\ wpiece' = [wpiece EXCEPT ![w] = NoPiece]
                     /\ wbuf' = [wbuf EXCEPT ![w] = NoBuf]
                     /\ UNCHANGED queueClosed
    /\ UNCHANGED <<numPeers, totalPieces, mainPc, result, pieceQueue, errChan,
                   errClosed, doneClosed, closerPc, disk,
                   failures>>

\* wg.Wait() returns when every worker has run wg.Done(); close(doneChan).
CloserWait ==
    /\ closerPc = "wait"
    /\ \A w \in Workers : wpc[w] = "exit"
    /\ doneClosed' = TRUE
    /\ closerPc' = "closeErr"
    /\ UNCHANGED <<numPeers, totalPieces, mainPc, result, downloaded,
                   pieceQueue, queueClosed, wpc, wpiece, wbuf, errChan,
                   errClosed, disk,
                   failures>>

\* close(errChan)
CloserCloseErr ==
    /\ closerPc = "closeErr"
    /\ errClosed' = TRUE
    /\ closerPc' = "done"
    /\ UNCHANGED <<numPeers, totalPieces, mainPc, result, downloaded,
                   pieceQueue, queueClosed, wpc, wpiece, wbuf, errChan,
                   doneClosed, disk,
                   failures>>

\* for err := range errChan: one error is received and logged.
MainDrain ==
    /\ mainPc = "drain"
    /\ errChan > 0
    /\ errChan' = errChan - 1
    /\ UNCHANGED <<numPeers, totalPieces, mainPc, result, downloaded,
                   pieceQueue, queueClosed, wpc, wpiece, wbuf, errClosed,
                   doneClosed, closerPc, disk,
                   failures>>

\* The final test inverted.
FinalResultInverted(all) == IF all THEN "incomplete" ELSE "nil"

\* The value startDownloadFromPeers returns after the scan of downloaded.
FinalResult(all) == IF all THEN "nil" ELSE "incomplete"

\* errChan is closed and drained: the scan of downloaded under the mutex and
\* the return.
MainFinish ==
    /\ mainPc = "drain"
    /\ errChan = 0 /\ errClosed
    /\ result' = FinalResult(AllDownloaded)
    /\ mainPc' = "returned"
    /\ UNCHANGED <<numPeers, totalPieces, downloaded, pieceQueue, queueClosed,
                   wpc, wpiece, wbuf, errChan, errClosed, doneClosed, closerPc,
                   disk,
                   failures>>

-----------------------------------------------------------------------------
(* Verifier: VerifyTorrent *)

\* fmt.Sprintf("%x", hash)
Hex(h) == [hex |-> h]

Min(a, b) == IF a < b THEN a ELSE b

\* The bytes of the slice s[from:to] as far as s has them.
Slice(s, from, to) == SubSeq(s, from + 1, Min(to, Len(s)))

\* The bytes file f has when the content is the buffer.
FileOf(buf, lens, f) == Slice(buf, SumLens(lens, f), SumLens(lens, f + 1))

\* torrent.Pieces of a metainfo made from the buffer: the hash of each piece.
HashesOf(buf, pl) ==
    [i \in 1..NumPieces(Len(buf), pl) |-> Hex(SHA1(PieceOf(buf, pl, i - 1)))]

\* A file that does not exist; no byte has the value -1.
Missing == <<-1>>

\* The last file of the list that has bytes.
LastNonEmpty(lens) ==
    CHOOSE f \in 1..Len(lens) :
        lens[f] > 0 /\ \A g \in (f + 1)..Len(lens) : lens[g] = 0

\* What may be found under contentPath for a metainfo made from the buffer:
\* the content itself, one byte of it changed, its last byte cut off, a byte
\* added at its end, or one file missing.
Disks(lens) ==
    LET buf == Buffer(TotalLength(lens))
        intact == [f \in 1..Len(lens) |-> FileOf(buf, lens, f)]
        changed == {[f \in 1..Len(lens) |->
                        FileOf([buf EXCEPT ![k] = 0], lens, f)] :
                     k \in 1..Len(buf)}
        short == [intact EXCEPT ![LastNonEmpty(lens)] =
                                    SubSeq(@, 1, Len(@) - 1)]
        long == [intact EXCEPT ![Len(lens)] = Append(@, 0)]
        gone == {[intact EXCEPT ![f] = Missing] : f \in 1..Len(lens)}
    IN  {intact, short, long} \cup changed \cup gone

VfIdle ==
    /\ vfLens = <<>> /\ vfPieceLength = 0 /\ vfHashes = <<>> /\ vfDisk = <<>>
    /\ vfFileIndex = 0 /\ vfOffset = 0 /\ vfPieceBuf = <<>>
    /\ vfPiece = [alias |-> FALSE, len |-> 0, data |-> <<>>]
    /\ vfPieceIndex = 0 /\ vfResult = "idle"

\* VerifyTorrent after TorrentFromBytes, for a metainfo made from the buffer.
VfInit ==
    /\ vfLens \in FileLists
    /\ TotalLength(vfLens) > 0
    /\ vfPieceLength \in 1..MaxPieceLen
    /\ vfHashes = HashesOf(Buffer(TotalLength(vfLens)), vfPieceLength)
    /\ vfDisk \in Disks(vfLens)
    /\ vfFileIndex = 0
    /\ vfOffset = 0
    /\ vfPieceBuf = <<>>
    /\ vfPiece = [alias |-> FALSE, len |-> 0, data |-> <<>>]
    /\ vfPieceIndex = 0
    /\ vfResult = "stat"

\* make([]byte, pieceLength)
Zeros(n) == [k \in 1..n |-> 0]

\* The loop of os.Stat over the files, and the two make([]byte, pieceLength).
VfStat ==
    /\ vfResult = "stat"
    /\ IF \E f \in 1..Len(vfLens) : vfDisk[f] = Missing
         THEN /\ vfResult' = "missing"
              /\ UNCHANGED <<vfFileIndex, vfPieceBuf, vfPiece>>
         ELSE /\ vfResult' = "reading"
              /\ vfFileIndex' = 1
              /\ vfPieceBuf' = Zeros(vfPieceLength)
              /\ vfPiece' = [alias |-> FALSE, len |-> vfPieceLength,
                             data |-> Zeros(vfPieceLength)]
    /\ UNCHANGED <<vfLens, vfPieceLength, vfHashes, vfDisk, vfOffset,
                   vfPieceIndex>>

\* The bytes of the slice piece: a prefix of the array of pieceBuf when the
\* slice shares that array.
PieceBytes(piece, buf) ==
    IF piece.alias THEN SubSeq(buf, 1, piece.len) ELSE piece.data

\* f.Read(pieceBuf): the array afterwards, n bytes read from the file.
ReadInto(buf, file, off, n) ==
    [k \in 1..Len(buf) |-> IF k <= n THEN file[off + k] ELSE buf[k]]

\* piece = append(piece, pieceBuf[:n]...): in place when the capacity
\* suffices, in a new array otherwise.  A piece that shares the array of
\* pieceBuf has the capacity pieceLength, and in place the bytes are copied
\* inside that array.
AppendRead(piece, buf, n, pl) ==
    IF piece.alias /\ piece.len + n <= pl
      THEN [piece |-> [alias |-> TRUE, len |-> piece.len + n, data |-> <<>>],
            buf |-> [k \in 1..Len(buf) |->
                        IF k > piece.len /\ k <= piece.len + n
                          THEN buf[k - piece.len] ELSE buf[k]]]
      ELSE [piece |-> [alias |-> FALSE, len |-> piece.len + n,
                       data |-> PieceBytes(piece, buf) \o SubSeq(buf, 1, n)],
            buf |-> buf]

\* copy(piece, pieceBuf[:n]); piece = piece[:n]
CopyRead(piece, buf, n) ==
    IF piece.alias
      THEN [alias |-> TRUE, len |-> n, data |-> <<>>]
      ELSE [alias |-> FALSE, len |-> n, data |-> SubSeq(buf, 1, n)]

\* The loop over the reads of a file is left: the next file, or return nil.
VfBreak ==
    IF vfFileIndex = Len(vfLens)
      THEN vfResult' = "ok" /\ UNCHANGED <<vfFileIndex, vfOffset>>
      ELSE /\ vfFileIndex' = vfFileIndex + 1
           /\ vfOffset' = 0
           /\ UNCHANGED vfResult

\* One round of the loop over the reads of the open file.
VfRead ==
    /\ vfResult = "reading"
    /\ LET file == vfDisk[vfFileIndex]
           n == Min(vfPieceLength, Len(file) - vfOffset)
           buf1 == ReadInto(vfPieceBuf, file, vfOffset, n)
           app == AppendRead(vfPiece, buf1, n, vfPieceLength)
           joined == vfPiece.len < vfPieceLength
           piece2 == IF n < vfPieceLength
                       THEN IF joined THEN app.piece
                            ELSE CopyRead(vfPiece, buf1, n)
                       ELSE [alias |-> TRUE, len |-> n, data |-> <<>>]
           buf2 == IF n < vfPieceLength /\ joined THEN app.buf ELSE buf1
       IN  IF n = 0
             THEN VfBreak /\ UNCHANGED <<vfPieceBuf, vfPiece, vfPieceIndex>>
             ELSE
               /\ vfPieceBuf' = buf2
               /\ vfPiece' = piece2
               /\ IF n < vfPieceLength /\ vfFileIndex # Len(vfLens)
                    THEN VfBreak /\ UNCHANGED vfPieceIndex
                  ELSE IF vfPieceIndex >= Len(vfHashes)
                    THEN /\ vfResult' = "panic"
                         /\ UNCHANGED <<vfFileIndex, vfOffset, vfPieceIndex>>
                  ELSE IF Hex(SHA1(PieceBytes(piece2, buf2)))
                            # vfHashes[vfPieceIndex + 1]
                    THEN /\ vfResult' = "corrupted"
                         /\ UNCHANGED <<vfFileIndex, vfOffset, vfPieceIndex>>
                  ELSE /\ vfPieceIndex' = vfPieceIndex + 1
                       /\ IF vfPieceIndex + 1 = Len(vfHashes)
                            THEN VfBreak
                            ELSE /\ vfOffset' = vfOffset + n
                                 /\ UNCHANGED <<vfFileIndex, vfResult>>
    /\ UNCHANGED <<vfLens, vfPieceLength, vfHashes, vfDisk>>

\* What the verifier is to find: all files exist, and every piece of the
\* concatenation of the files, cut at the total length, has its hash.
PiecesMatch ==
    /\ \A f \in 1..Len(vfLens) : vfDisk[f] # Missing
    /\ LET total == TotalLength(vfLens)
           stream == Concat(vfDisk)
       IN  \A i \in 0..(Len(vfHashes) - 1) :
             Hex(SHA1(Slice(stream, i * vfPieceLength,
                            Min((i + 1) * vfPieceLength, total))))
               = vfHashes[i + 1]

-----------------------------------------------------------------------------
(* Bencode codec and the info hash: Decode, Encode, TorrentFromBytes *)

\* The bytes that occur in the documents, in ascending order of their values.
Ascii ==
    <<"NUL", " ", "+", "-", "0", "1", "2", "3", "4", "5", "6", "7", "8", "9", ":",
      "a", "b", "c", "d", "e", "f", "g", "h", "i", "j", "k", "l", "m", "n",
      "o", "p", "q", "r", "s", "t", "u", "v", "w", "x", "y", "z">>

\* The place of a byte in the order of the byte values.
Code(c) == CHOOSE k \in 1..Len(Ascii) : Ascii[k] = c

Digits == <<"0", "1", "2", "3", "4", "5", "6", "7", "8", "9">>

Base == Len(Digits)

IsDigit(c) == \E k \in 1..Base : Digits[k] = c

DigitValue(c) == (CHOOSE k \in 1..Base : Digits[k] = c) - 1

RECURSIVE DigitsValue(_)
DigitsValue(s) ==
    IF s = <<>> THEN 0
    ELSE DigitsValue(SubSeq(s, 1, Len(s) - 1)) * Base + DigitValue(s[Len(s)])

\* The sign is read over and dropped.
ParseIntUnsigned(s) ==
    LET signed == s # <<>> /\ s[1] \in {"+", "-"}
        body == IF signed THEN Tail(s) ELSE s
    IN  IF body = <<>> \/ \E k \in 1..Len(body) : ~IsDigit(body[k])
          THEN [ok |-> FALSE, v |-> 0]
          ELSE [ok |-> TRUE, v |-> DigitsValue(body)]

\* strconv.ParseInt(s, 10, 64) and strconv.Atoi(s): an optional sign and at
\* least one digit; leading zeros are accepted.
ParseInt(s) ==
    LET signed == s # <<>> /\ s[1] \in {"+", "-"}
        body == IF signed THEN Tail(s) ELSE s
    IN  IF body = <<>> \/ \E k \in 1..Len(body) : ~IsDigit(body[k])
          THEN [ok |-> FALSE, v |-> 0]
          ELSE [ok |-> TRUE,
                v |-> IF signed /\ s[1] = "-" THEN 0 - DigitsValue(body)
                      ELSE DigitsValue(body)]

RECURSIVE Decimal(_)
\* fmt.Sprintf("%d", n)
Decimal(n) ==
    IF n < 0 THEN <<"-">> \o Decimal(0 - n)
    ELSE IF n < Base THEN <<Digits[n + 1]>>
    ELSE Decimal(n \div Base) \o <<Digits[(n % Base) + 1]>>

\* A nil *Data, and the values NewData makes.
NilData == [t |-> "nil"]
InvalidData == [t |-> "invalid"]
IntData(v) == [t |-> "int", v |-> v]
StrData(v) == [t |-> "str", v |-> v]
ListData(v) == [t |-> "list", v |-> v]
DictData(v) == [t |-> "dict", v |-> v]

\* dict[key] = val
DictPut(dict, key, val) ==
    [k \in DOMAIN dict \cup {key} |-> IF k = key THEN val ELSE dict[k]]

\* The first index j >= from of content with content[j] = c, or -1; content
\* is doc[pos:end].
IndexOf(doc, pos, end, from, c) ==
    LET js == {j \in from..(end - pos - 1) : doc[pos + j + 1] = c}
    IN  IF js = {} THEN -1 ELSE CHOOSE j \in js : \A k \in js : j <= k

\* What Decode returns: the value, the count of bytes read and the error; a
\* run-time panic is the error "panic".
Decoded(val, count, err) == [val |-> val, count |-> count, err |-> err]

RECURSIVE Dec(_, _, _)
RECURSIVE DecList(_, _, _, _, _)
RECURSIVE DecDict(_, _, _, _, _)

\* The loop of the list case from index i on.
DecList(doc, pos, end, i, list) ==
    IF i >= end - pos
      THEN Decoded(ListData(list), end - pos, "invalid list")
    ELSE IF doc[pos + i + 1] = "e"
      THEN Decoded(ListData(list), i + 1, "")
    ELSE
      LET elem == Dec(doc, pos + i, end)
      IN  IF elem.err # ""
            THEN Decoded(ListData(list), elem.count, elem.err)
            ELSE DecList(doc, pos, end, i + elem.count,
                         Append(list, elem.val))

\* The loop of the dictionary case from index i on.
DecDict(doc, pos, end, i, dict) ==
    IF i >= end - pos
      THEN Decoded(DictData(dict), end - pos, "invalid dictionary")
    ELSE IF doc[pos + i + 1] = "e"
      THEN Decoded(DictData(dict), i + 1, "")
    ELSE
      LET key == Dec(doc, pos + i, end)
          j == i + key.count
          val == Dec(doc, pos + j, end)
      IN  IF key.err # ""
            THEN Decoded(DictData(dict), key.count, key.err)
          ELSE IF key.val.t = "nil"
            THEN Decoded(DictData(dict), key.count, "panic")
          ELSE IF key.val.t # "str"
            THEN Decoded(DictData(dict), key.count, "invalid dictionary key")
          ELSE IF j > end - pos
            THEN Decoded(DictData(dict), key.count, "panic")
          ELSE IF val.err # ""
            THEN Decoded(DictData(dict), val.count, val.err)
          ELSE DecDict(doc, pos, end, j + val.count,
                       DictPut(dict, key.val.v, val.val))

\* Decode(content) for content = doc[pos:end]; the capacity of content ends
\* where doc ends.
Dec(doc, pos, end) ==
    LET n == end - pos
        e == IndexOf(doc, pos, end, 1, "e")
        c == IndexOf(doc, pos, end, 0, ":")
        int == ParseInt(SubSeq(doc, pos + 2, pos + e))
        strLen == ParseInt(SubSeq(doc, pos + 1, pos + c))
    IN  IF n = 0 THEN Decoded(NilData, 0, "")
        ELSE IF doc[pos + 1] = "i"
          THEN IF e = -1 THEN Decoded(InvalidData, n, "invalid integer")
               ELSE IF ~int.ok THEN Decoded(NilData, e + 1, "")
               ELSE Decoded(IntData(int.v), e + 1, "")
        ELSE IF doc[pos + 1] = "l" THEN DecList(doc, pos, end, 1, <<>>)
        ELSE IF doc[pos + 1] = "d" THEN DecDict(doc, pos, end, 1, <<>>)
        ELSE IF c = -1 THEN Decoded(NilData, n, "invalid string")
        ELSE IF ~strLen.ok
          THEN Decoded(NilData, c + 1, "invalid string length")
        ELSE IF strLen.v < 0 \/ pos + c + 1 + strLen.v > Len(doc)
          THEN Decoded(NilData, c + 1, "panic")
        ELSE Decoded(StrData(SubSeq(doc, pos + c + 2, pos + c + 1 + strLen.v)),
                     c + 1 + strLen.v, "")

\* bencode.Decode(content)
Decode(content) == Dec(content, 0, Len(content))

\* a < b for strings: the order of slices.Sort.
LexLess(a, b) ==
    \/ Len(a) < Len(b) /\ a = SubSeq(b, 1, Len(a))
    \/ \E k \in 1..Min(Len(a), Len(b)) :
          /\ SubSeq(a, 1, k - 1) = SubSeq(b, 1, k - 1)
          /\ Code(a[k]) < Code(b[k])

RECURSIVE SortKeys(_)
\* slices.Sort(keys)
SortKeys(keys) ==
    IF keys = {} THEN <<>>
    ELSE LET first == CHOOSE k \in keys :
                        \A other \in keys \ {k} : LexLess(k, other)
         IN  <<first>> \o SortKeys(keys \ {first})

RECURSIVE Encode(_)
RECURSIVE EncodeList(_, _)
RECURSIVE EncodeDict(_, _, _)

\* The elements of the list from k on, encoded one after the other.
EncodeList(list, k) ==
    IF k > Len(list) THEN <<>>
    ELSE Encode(list[k]) \o EncodeList(list, k + 1)

\* The entries of the dict for keys[k..], key and value encoded in turn.
EncodeDict(dict, keys, k) ==
    IF k > Len(keys) THEN <<>>
    ELSE Encode(StrData(keys[k])) \o Encode(dict[keys[k]])
           \o EncodeDict(dict, keys, k + 1)

\* bencode.Encode(data) for a data without nil values.
Encode(data) ==
    IF data.t = "str" THEN Decimal(Len(data.v)) \o <<":">> \o data.v
    ELSE IF data.t = "int" THEN <<"i">> \o Decimal(data.v) \o <<"e">>
    ELSE IF data.t = "list" THEN <<"l">> \o EncodeList(data.v, 1) \o <<"e">>
    ELSE IF data.t = "dict"
      THEN <<"d">> \o EncodeDict(data.v, SortKeys(DOMAIN data.v), 1)
             \o <<"e">>
    ELSE <<>>

RECURSIVE HasNil(_)
\* The data is a nil pointer or holds one: Encode then dereferences it.
HasNil(data) ==
    \/ data.t = "nil"
    \/ data.t = "list" /\ \E k \in 1..Len(data.v) : HasNil(data.v[k])
    \/ data.t = "dict" /\ \E k \in DOMAIN data.v : HasNil(data.v[k])

KeyAnnounce == <<"a", "n", "n", "o", "u", "n", "c", "e">>
KeyInfo == <<"i", "n", "f", "o">>
KeyLength == <<"l", "e", "n", "g", "t", "h">>
KeyName == <<"n", "a", "m", "e">>
KeyPieceLength == <<"p", "i", "e", "c", "e", " ", "l", "e", "n", "g", "t", "h">>
KeyPieces == <<"p", "i", "e", "c", "e", "s">>

\* The key is in the dict with a value that is not of type t: the accessor
\* (AsString, AsInt, AsBytes) panics.
WrongType(dict, key, t) == key \in DOMAIN dict /\ dict[key].t # t

\* TorrentFromBencodeData panics for a root of the keys announce and info
\* and an info of the keys length, name, piece length and pieces: a type
\* assertion fails, a nil value is dereferenced, or the piece count of the
\* file divides by a piece length of 0.
MetainfoPanics(root) ==
    \/ root.t # "dict"
    \/ KeyInfo \notin DOMAIN root.v
    \/ root.v[KeyInfo].t # "dict"
    \/ WrongType(root.v, KeyAnnounce, "str")
    \/ LET info == root.v[KeyInfo].v
       IN  \/ WrongType(info, KeyName, "str")
           \/ KeyLength \notin DOMAIN info
           \/ info[KeyLength].t # "int"
           \/ KeyPieceLength \notin DOMAIN info
           \/ info[KeyPieceLength].t # "int"
           \/ info[KeyPieceLength].v = 0
           \/ WrongType(info, KeyPieces, "str")
           \/ HasNil(root.v[KeyInfo])

\* SHA-1 of the re-encoded info dictionary.
InfoHashOf(root) == SHA1(Encode(root.v[KeyInfo]))

\* TorrentFromBytes(data): the status of the call and torrent.InfoHash.
TorrentFromBytes(data) ==
    LET dec == Decode(data)
    IN  IF dec.err = "panic" THEN [status |-> "panic", hash |-> SHA1(<<>>)]
        ELSE IF dec.err # "" THEN [status |-> "error", hash |-> SHA1(<<>>)]
        ELSE IF dec.val.t = "nil" THEN [status |-> "nil", hash |-> SHA1(<<>>)]
        ELSE IF MetainfoPanics(dec.val)
          THEN [status |-> "panic", hash |-> SHA1(<<>>)]
        ELSE [status |-> "ok", hash |-> InfoHashOf(dec.val)]

RECURSIVE InfoRange(_, _, _)
\* The bytes of the document that encode the value of the key info: the
\* entries of the root dictionary are walked from index i on.
InfoRange(doc, i, found) ==
    IF i >= Len(doc) \/ doc[i + 1] = "e" THEN found
    ELSE LET key == Dec(doc, i, Len(doc))
             val == Dec(doc, i + key.count, Len(doc))
         IN  InfoRange(doc, i + key.count + val.count,
                       IF key.val.v = KeyInfo
                         THEN SubSeq(doc, i + key.count + 1,
                                     i + key.count + val.count)
                         ELSE found)

InfoSlice(doc) == InfoRange(doc, 1, <<>>)

\* The encodings of the entries an info dictionary of the corpus can have.
InfoEntries ==
    {Encode(StrData(KeyLength)) \o <<"i", "2", "e">>,
     Encode(StrData(KeyLength)) \o <<"i", "0", "2", "e">>,
     Encode(StrData(KeyName)) \o <<"1", ":", "a">>,
     Encode(StrData(KeyPieceLength)) \o <<"i", "1", "e">>,
     Encode(StrData(KeyPieceLength)) \o <<"i", "0", "e">>,
     Encode(StrData(KeyPieces)) \o <<"0", ":">>}

RECURSIVE Flatten(_)
Flatten(seqs) == IF seqs = <<>> THEN <<>> ELSE Head(seqs) \o Flatten(Tail(seqs))

\* The info dictionaries of the corpus: up to MaxInfoEntries entries in any
\* order, no entry twice.
InfoDicts ==
    {<<"d">> \o Flatten(es) \o <<"e">> :
        es \in {x \in UNION {[1..n -> InfoEntries] : n \in 0..MaxInfoEntries} :
                   \A a, b \in 1..Len(x) : a # b => x[a] # x[b]}}

\* The documents of the corpus: a root dictionary with the info dictionary
\* and, before or after it or not at all, the announce URL.
Corpus ==
    LET announce == Encode(StrData(KeyAnnounce)) \o <<"1", ":", "t">>
        info(d) == Encode(StrData(KeyInfo)) \o d
    IN  UNION {{<<"d">> \o info(d) \o <<"e">>,
                <<"d">> \o announce \o info(d) \o <<"e">>,
                <<"d">> \o info(d) \o announce \o <<"e">>} : d \in InfoDicts}

IhIdle == ihDoc = <<>> /\ ihStatus = "idle" /\ ihHash = SHA1(<<>>)

IhInit == ihDoc \in Corpus /\ ihStatus = "input" /\ ihHash = SHA1(<<>>)

\* TorrentFromBytes(ihDoc)
IhParse ==
    /\ ihStatus = "input"
    /\ LET t == TorrentFromBytes(ihDoc)
       IN  ihStatus' = t.status /\ ihHash' = t.hash
    /\ UNCHANGED ihDoc

-----------------------------------------------------------------------------
(* Codec runs: Decode on a byte slice, Encode on the decoded value *)

CodecInts == {0 - 42, 0 - 1, 0, 42}

\* Byte strings, among them ones that look like bencode.
CodecStrings == {<<>>, <<"a">>, <<"e">>, <<"1", ":", "i">>}

CodecKeys == {<<>>, <<"a">>, <<"a", "b">>, <<"b">>}

Atoms == {IntData(n) : n \in CodecInts} \cup {StrData(b) : b \in CodecStrings}

\* The lists of up to MaxCodecLen of the values.
ListsOf(values) ==
    {ListData(l) : l \in UNION {[1..n -> values] : n \in 0..MaxCodecLen}}

\* The dictionaries of up to MaxCodecLen keys with the values.
DictsOf(values) ==
    {DictData(d) :
        d \in UNION {[K -> values] :
                       K \in {X \in SUBSET CodecKeys :
                                Cardinality(X) <= MaxCodecLen}}}

Flat == Atoms \cup ListsOf(Atoms) \cup DictsOf(Atoms)

\* The values of the codec runs: the flat ones, and each of them inside a
\* list and inside a dictionary.
CodecValues ==
    Flat \cup {ListData(<<v>>) : v \in Flat}
         \cup {ListData(<<StrData(<<"e">>), v>>) : v \in Flat}
         \cup {DictData([k \in {<<"b">>} |-> v]) : v \in Flat}

\* Well-formed documents written by hand.
WellFormedDocs ==
    {<<"l", "4", ":", "s", "p", "a", "m", "l", "1", ":", "a", "1", ":", "b",
       "e", "e">>,
     <<"d", "3", ":", "c", "o", "w", "3", ":", "m", "o", "o", "4", ":", "s",
       "p", "a", "m", "4", ":", "e", "g", "g", "s", "e">>,
     <<"i", "-", "4", "2", "e">>,
     <<"i", "4", "2", "e">>,
     <<"4", ":", "s", "p", "a", "m">>}

\* Integers with a leading zero, and minus zero.
NonCanonicalInts ==
    {<<"i", "0", "3", "e">>, <<"i", "0", "0", "e">>, <<"i", "-", "0", "e">>,
     <<"i", "-", "0", "3", "e">>}

\* A length prefix that is not a non-negative number.
BadLengthPrefix == {<<"-", "1", ":", "a">>, <<"a", ":", "b">>, <<":", "a">>}

\* A list or dictionary without its closing e.
Unterminated ==
    {<<"l">>, <<"l", "1", ":", "a">>, <<"l", "i", "1", "e">>, <<"d">>,
     <<"d", "1", ":", "a", "1", ":", "b">>}

\* No integer between i and e.
NonInteger ==
    {<<"i", "e">>, <<"i", "x", "e">>, <<"i", "1", "a", "e">>,
     <<"i", "-", "e">>, <<"l", "i", "x", "e", "e">>}

\* A dictionary key that is not a byte string.
NonStringKey ==
    {<<"d", "i", "1", "e", "1", ":", "a", "e">>,
     <<"d", "l", "e", "1", ":", "a", "e">>,
     <<"d", "i", "x", "e", "1", ":", "a", "e">>}

\* Input that ends in the middle of a value.
EndsMidValue ==
    {<<"i", "1">>, <<"3">>, <<"3", ":", "a", "b">>,
     <<"l", "3", ":", "a", "b">>, <<"d", "1", ":", "a">>,
     <<"d", "1", ":", "a", "3", ":", "b", "c">>, <<"d", "3", ":", "a", "b">>}

Malformed ==
    BadLengthPrefix \cup Unterminated \cup NonInteger \cup NonStringKey
        \cup EndsMidValue

RawInputs == WellFormedDocs \cup NonCanonicalInts \cup Malformed

\* The bytes between len and cap of the slice given to Decode.
Spares == {<<>>, <<"NUL", "NUL">>}

BcIdle ==
    /\ bcArray = <<>> /\ bcLen = 0 /\ bcValue = NilData /\ bcPc = "idle"
    /\ bcOut = Decoded(NilData, 0, "") /\ bcBytes = <<>>

\* The content is the encoding of a value, or one of the raw inputs; the
\* slice may have spare capacity.
BcInit ==
    /\ \E spare \in Spares :
          \/ /\ bcValue \in CodecValues
             /\ bcLen = Len(Encode(bcValue))
             /\ bcArray = Encode(bcValue) \o spare
          \/ /\ bcValue = NilData
             /\ \E raw \in RawInputs :
                   bcLen = Len(raw) /\ bcArray = raw \o spare
    /\ bcPc = "input"
    /\ bcOut = Decoded(NilData, 0, "")
    /\ bcBytes = <<>>

BcContent == SubSeq(bcArray, 1, bcLen)

\* Decode(content)
BcDecode ==
    /\ bcPc = "input"
    /\ bcPc' = "decoded"
    /\ bcOut' = Dec(bcArray, 0, bcLen)
    /\ UNCHANGED <<bcArray, bcLen, bcValue, bcBytes>>

\* Encode(data) for the data Decode returned without an error; a nil pointer
\* in it is dereferenced.
BcEncode ==
    /\ bcPc = "decoded"
    /\ bcOut.err = ""
    /\ IF HasNil(bcOut.val)
         THEN bcPc' = "encode panicked" /\ UNCHANGED bcBytes
         ELSE bcPc' = "encoded" /\ bcBytes' = Encode(bcOut.val)
    /\ UNCHANGED <<bcArray, bcLen, bcValue, bcOut>>

-----------------------------------------------------------------------------
(* Bitfield: HasPiece and SetPiece *)

BitsPerByte == 8

RECURSIVE Pow2(_)
Pow2(k) == IF k = 0 THEN 1 ELSE 2 * Pow2(k - 1)

\* a / b and a % b of Go: the quotient is truncated toward zero.
GoDiv(a, b) == IF a >= 0 THEN a \div b ELSE 0 - ((0 - a) \div b)
GoMod(a, b) == a - b * GoDiv(a, b)

\* Bit k of the byte b; a shift by 8 or more leaves 0.
BitOf(b, k) == (b \div Pow2(k)) % 2

\* 1 << k in a byte
ByteShl(k) == Pow2(k) % Pow2(BitsPerByte)

\* b | m for a mask of at most one bit
ByteOr(b, m) ==
    IF m = 0 THEN b
    ELSE IF (b \div m) % 2 = 1 THEN b ELSE b + m

\* bf.HasPiece(index)
HasPiece(bf, index) ==
    LET byteIndex == GoDiv(index, BitsPerByte)
        offset == GoMod(index, BitsPerByte)
    IN  IF byteIndex < 0 \/ byteIndex >= Len(bf) THEN FALSE
        ELSE BitOf(bf[byteIndex + 1], BitsPerByte - 1 - offset) # 0

\* bf.SetPiece(index): the bytes afterwards
SetPiece(bf, index) ==
    LET byteIndex == GoDiv(index, BitsPerByte)
        offset == GoMod(index, BitsPerByte)
    IN  IF byteIndex < 0 \/ byteIndex >= Len(bf) THEN bf
        ELSE [bf EXCEPT ![byteIndex + 1] =
                          ByteOr(@, ByteShl(BitsPerByte - 1 - offset))]

\* The piece counts of the bitfields: less than a byte, a full byte, a byte
\* and spare bits.
BfPieceCounts == {1, 8, 10}

\* The indices tried: negative, inside, the spare bits, beyond the array.
BfIndices(n) == (0 - BitsPerByte - 1)..(n + 2 * BitsPerByte)

BfIdle ==
    /\ bfNum = 0 /\ bfBytes = <<>> /\ bfBefore = <<>> /\ bfIndex = 0
    /\ bfSets = 0

\* make(Bitfield, (len(tor.Pieces)+7)/8)
BfInit ==
    /\ bfNum \in BfPieceCounts
    /\ bfBytes = [k \in 1..((bfNum + BitsPerByte - 1) \div BitsPerByte) |-> 0]
    /\ bfBefore = bfBytes
    /\ bfIndex = 0
    /\ bfSets = 0

\* bf.SetPiece(i)
BfSetPiece(i) ==
    /\ bfSets < MaxSets
    /\ bfSets' = bfSets + 1
    /\ bfBefore' = bfBytes
    /\ bfIndex' = i
    /\ bfBytes' = SetPiece(bfBytes, i)
    /\ UNCHANGED bfNum

-----------------------------------------------------------------------------
(* Framing: Message.Serialize, ReadMessage, FormatRequest *)

MsgKeepAlive == 255

\* The ids of the protocol: MsgChoke .. MsgPort.
MessageIds == 0..9

Byte == Pow2(BitsPerByte)

\* binary.BigEndian.PutUint32
PutUint32(n) ==
    <<(n \div (Byte * Byte * Byte)) % Byte, (n \div (Byte * Byte)) % Byte,
      (n \div Byte) % Byte, n % Byte>>

\* binary.BigEndian.Uint32
Uint32(b) == ((b[1] * Byte + b[2]) * Byte + b[3]) * Byte + b[4]

\* The length prefix counts the payload only.
MessageLengthNoId(payload) == Len(payload)

\* length := uint32(1 + len(m.Payload))
MessageLength(payload) == 1 + Len(payload)

\* m.Serialize()
Serialize(type, payload) ==
    IF type = MsgKeepAlive THEN PutUint32(0)
    ELSE PutUint32(MessageLength(payload)) \o <<type>> \o payload

\* ReadMessage(r) on a stream with the given bytes: the message, the error,
\* and the bytes left on the stream.  io.ReadFull fails when the stream ends
\* before the buffer is full.
ReadMessage(stream) ==
    LET prefix == Len(PutUint32(0))
        length == Uint32(SubSeq(stream, 1, prefix))
    IN  IF Len(stream) < prefix
          THEN [type |-> MsgKeepAlive, payload |-> <<>>, err |-> "EOF",
                rest |-> <<>>]
        ELSE IF length = 0
          THEN [type |-> MsgKeepAlive, payload |-> <<>>, err |-> "",
                rest |-> SubSeq(stream, prefix + 1, Len(stream))]
        ELSE IF Len(stream) < prefix + length
          THEN [type |-> MsgKeepAlive, payload |-> <<>>, err |-> "EOF",
                rest |-> <<>>]
        ELSE [type |-> stream[prefix + 1],
              payload |-> SubSeq(stream, prefix + 2, prefix + length),
              err |-> "",
              rest |-> SubSeq(stream, prefix + length + 1, Len(stream))]

\* FormatRequest(index, begin, length)
FormatRequest(index, begin, length) ==
    PutUint32(index) \o PutUint32(begin) \o PutUint32(length)

PayloadBytes == {0, 5, 255}

\* The payloads of the runs: the short ones, the one of have(5), and the
\* one of a request for index 3, begin 0, length 16384.
Payloads ==
    UNION {[1..n -> PayloadBytes] : n \in 0..MaxPayload}
        \cup {PutUint32(5), FormatRequest(3, 0, 16384)}

Trails == {<<>>, <<0, 0, 0, 0>>, <<7>>}

MsIdle ==
    /\ msType = 0 /\ msPayload = <<>> /\ msTrail = <<>> /\ msPc = "idle"
    /\ msWire = <<>>
    /\ msRead = [type |-> 0, payload |-> <<>>, err |-> "", rest |-> <<>>]

MsInit ==
    /\ msType \in MessageIds \cup {MsgKeepAlive}
    /\ msPayload \in Payloads
    /\ msTrail \in Trails
    /\ msPc = "message"
    /\ msWire = <<>>
    /\ msRead = [type |-> 0, payload |-> <<>>, err |-> "", rest |-> <<>>]

\* conn.Write(msg.Serialize())
MsSerialize ==
    /\ msPc = "message"
    /\ msPc' = "serialized"
    /\ msWire' = Serialize(msType, msPayload)
    /\ UNCHANGED <<msType, msPayload, msTrail, msRead>>

\* ReadMessage on the stream of the serialized message and what follows it.
MsReadMessage ==
    /\ msPc = "serialized"
    /\ msPc' = "read"
    /\ msRead' = ReadMessage(msWire \o msTrail)
    /\ UNCHANGED <<msType, msPayload, msTrail, msWire>>

-----------------------------------------------------------------------------
(* Handshake: PerformHandshake and what is sent on the connection *)

\* "BitTorrent protocol"
ProtocolIdentifier ==
    <<66, 105, 116, 84, 111, 114, 114, 101, 110, 116, 32, 112, 114, 111, 116,
      111, 99, 111, 108>>

ReservedLen == 8

HashLen == 20

\* A 20-byte value of one repeated byte: info hashes and peer ids.
Twenty(b) == [k \in 1..HashLen |-> b]

\* tor.InfoHash
OwnInfoHash == Twenty(17)

\* h.Serialize()
HandshakeBytes(h) ==
    <<Len(h.pstr)>> \o h.pstr \o h.reserved \o h.infoHash \o h.peerID

\* ReadHandshake(r) on a stream with the given bytes.
ReadHandshake(stream) ==
    LET pstrlen == stream[1]
        failed == [err |-> "read failed", pstr |-> <<>>,
                   infoHash |-> <<>>, peerID |-> <<>>, reserved |-> <<>>]
    IN  IF Len(stream) < 1 THEN failed
        ELSE IF pstrlen = 0 THEN failed
        ELSE IF Len(stream) < 1 + ReservedLen + 2 * HashLen + pstrlen
          THEN failed
        ELSE [err |-> "",
              pstr |-> SubSeq(stream, 2, 1 + pstrlen),
              reserved |-> SubSeq(stream, 2 + pstrlen,
                                  1 + pstrlen + ReservedLen),
              infoHash |-> SubSeq(stream, 2 + pstrlen + ReservedLen,
                                  1 + pstrlen + ReservedLen + HashLen),
              peerID |-> SubSeq(stream, 2 + pstrlen + ReservedLen + HashLen,
                                1 + pstrlen + ReservedLen + 2 * HashLen)]

\* Only the protocol string is compared.
HandshakeValidPstrOnly(res, infoHash) ==
    IF res.pstr # ProtocolIdentifier THEN "invalid protocol identifier"
    ELSE ""

\* The validation of the handshake response.
HandshakeValid(res, infoHash) ==
    IF res.pstr # ProtocolIdentifier THEN "invalid protocol identifier"
    ELSE IF res.infoHash # infoHash THEN "infohash mismatch"
    ELSE ""

\* PerformHandshake(conn, tor, selfPeerID): the error, "" for none.
PerformHandshake(writeOk, stream, infoHash) ==
    IF ~writeOk THEN "send failed"
    ELSE IF ReadHandshake(stream).err # "" THEN "read failed"
    ELSE HandshakeValid(ReadHandshake(stream), infoHash)

\* The protocol strings a peer may send.
PeerPstrs ==
    {ProtocolIdentifier,
     [ProtocolIdentifier EXCEPT ![Len(ProtocolIdentifier)] = 76],
     Append(ProtocolIdentifier, 32),
     SubSeq(ProtocolIdentifier, 1, 10),
     <<>>}

PeerHandshakes ==
    [pstr : PeerPstrs,
     reserved : {[k \in 1..ReservedLen |-> 0], [k \in 1..ReservedLen |-> 16]},
     infoHash : {OwnInfoHash, Twenty(18)},
     peerID : {Twenty(45), Twenty(0)}]

\* How much of the peer's handshake arrives: all of it, or a part.
Arrived(bytes) ==
    {bytes, SubSeq(bytes, 1, Len(bytes) - 1), SubSeq(bytes, 1, 1), <<>>}

HsIdle ==
    /\ hsPeer = [pstr |-> <<>>, reserved |-> <<>>, infoHash |-> <<>>,
                 peerID |-> <<>>]
    /\ hsReply = <<>> /\ hsWriteOk = FALSE /\ hsPc = "idle"
    /\ hsResult = "" /\ hsSent = <<>>

\* The connection is established.
HsInit ==
    /\ hsPeer \in PeerHandshakes
    /\ hsReply \in Arrived(HandshakeBytes(hsPeer))
    /\ hsWriteOk \in BOOLEAN
    /\ hsPc = "handshake"
    /\ hsResult = ""
    /\ hsSent = <<>>

\* torrent.PerformHandshake; on an error the loop continues with the next
\* peer.
HsPerform ==
    /\ hsPc = "handshake"
    /\ hsResult' = PerformHandshake(hsWriteOk, hsReply, OwnInfoHash)
    /\ hsSent' = IF hsWriteOk THEN Append(hsSent, "handshake") ELSE hsSent
    /\ hsPc' = IF hsResult' = "" THEN "first message" ELSE "left"
    /\ UNCHANGED <<hsPeer, hsReply, hsWriteOk>>

\* The first message is read and the bitfield asked for the piece; the
\* attempt is left, or Interested is sent.
HsInterested ==
    /\ hsPc = "first message"
    /\ \/ hsPc' = "left" /\ UNCHANGED hsSent
       \/ hsPc' = "session" /\ hsSent' = Append(hsSent, "interested")
    /\ UNCHANGED <<hsPeer, hsReply, hsWriteOk, hsResult>>

\* downloadPieceFromChokedPeer sends a request.
HsRequest ==
    /\ hsPc = "session"
    /\ Len(SelectSeq(hsSent, LAMBDA m : m = "request")) < MaxHsRequests
    /\ hsSent' = Append(hsSent, "request")
    /\ UNCHANGED <<hsPeer, hsReply, hsWriteOk, hsResult, hsPc>>

\* downloadPieceFromChokedPeer returns.
HsLeave ==
    /\ hsPc = "session"
    /\ hsPc' = "left"
    /\ UNCHANGED <<hsPeer, hsReply, hsWriteOk, hsResult, hsSent>>

-----------------------------------------------------------------------------
(* Tracker factory: NewTracker *)

LowerCase ==
    <<"a", "b", "c", "d", "e", "f", "g", "h", "i", "j", "k", "l", "m",
      "n", "o", "p", "q", "r", "s", "t", "u", "v", "w", "x", "y", "z">>

UpperCase ==
    <<"A", "B", "C", "D", "E", "F", "G", "H", "I", "J", "K", "L", "M",
      "N", "O", "P", "Q", "R", "S", "T", "U", "V", "W", "X", "Y", "Z">>

Range(seq) == {seq[k] : k \in 1..Len(seq)}

IsLetter(c) == c \in Range(LowerCase) \cup Range(UpperCase)

\* strings.ToLower on one character and on a string.
LowerOf(c) ==
    IF c \in Range(UpperCase)
      THEN LowerCase[CHOOSE k \in 1..Len(UpperCase) : UpperCase[k] = c]
      ELSE c

ToLower(str) == [k \in 1..Len(str) |-> LowerOf(str[k])]

\* net/url getScheme: the scheme before the first colon, none when the
\* URL does not start as a scheme does.
RECURSIVE GetSchemeFrom(_, _)
GetSchemeFrom(raw, i) ==
    IF i > Len(raw) THEN [scheme |-> <<>>, rest |-> raw, err |-> ""]
    ELSE IF IsLetter(raw[i]) THEN GetSchemeFrom(raw, i + 1)
    ELSE IF IsDigit(raw[i]) \/ raw[i] \in {"+", "-", "."}
      THEN IF i = 1 THEN [scheme |-> <<>>, rest |-> raw, err |-> ""]
           ELSE GetSchemeFrom(raw, i + 1)
    ELSE IF raw[i] = ":"
      THEN IF i = 1
             THEN [scheme |-> <<>>, rest |-> <<>>,
                   err |-> "missing protocol scheme"]
             ELSE [scheme |-> SubSeq(raw, 1, i - 1),
                   rest |-> SubSeq(raw, i + 1, Len(raw)), err |-> ""]
    ELSE [scheme |-> <<>>, rest |-> raw, err |-> ""]

\* The part of a string before its first "/".
RECURSIVE FirstSegment(_)
FirstSegment(str) ==
    IF str = <<>> \/ Head(str) = "/" THEN <<>>
    ELSE <<Head(str)>> \o FirstSegment(Tail(str))

\* url.Parse(announce): the lower-cased scheme and the error.
UrlParse(raw) ==
    LET g == GetSchemeFrom(raw, 1)
    IN  IF g.err # "" THEN [scheme |-> <<>>, err |-> g.err]
        ELSE IF g.scheme = <<>> /\ (g.rest = <<>> \/ Head(g.rest) # "/")
                /\ ":" \in Range(FirstSegment(g.rest))
          THEN [scheme |-> <<>>,
                err |-> "first path segment in URL cannot contain colon"]
        ELSE [scheme |-> ToLower(g.scheme), err |-> ""]

SchemeHttp == <<"h", "t", "t", "p">>

SchemeHttps == <<"h", "t", "t", "p", "s">>

SchemeUdp == <<"u", "d", "p">>

\* NewTracker(announce): the variant built and the error.
NewTracker(announce) ==
    LET url == UrlParse(announce)
        protocol == IF url.scheme = <<>> THEN SchemeHttp ELSE url.scheme
    IN  IF url.err # "" THEN [tracker |-> "none", err |-> url.err]
        ELSE IF protocol \in {SchemeHttps, SchemeHttp}
          THEN [tracker |-> "http", err |-> ""]
        ELSE IF protocol = SchemeUdp THEN [tracker |-> "udp", err |-> ""]
        ELSE [tracker |-> "none", err |-> "unsupported protocol"]

\* The announce URLs of the runs: what stands before the separator, the
\* separator, and the rest.
AnnounceHeads ==
    {<<>>, SchemeHttp, SchemeHttps, SchemeUdp, <<"H", "T", "T", "P">>,
     <<"U", "d", "p">>, <<"w", "s">>, <<"w", "s", "s">>, <<"f", "t", "p">>,
     <<"h", "2">>, <<"2", "h">>, <<"h", "t", "t", "p", "x">>, <<"t">>}

AnnounceSeparators == {<<>>, <<":">>, <<":", "/", "/">>, <<"/", "/">>}

AnnounceRests ==
    {<<>>, <<"t", "/", "a">>, <<"t", ":", "8", "0", "/", "a">>, <<"/", "a">>}

Announces ==
    {h \o p \o r : h \in AnnounceHeads, p \in AnnounceSeparators,
                   r \in AnnounceRests}

TrIdle ==
    /\ trAnnounce = <<>> /\ trPc = "idle"
    /\ trResult = [tracker |-> "none", err |-> ""]

TrInit ==
    /\ trAnnounce \in Announces
    /\ trPc = "create"
    /\ trResult = [tracker |-> "none", err |-> ""]

\* torrent.NewTracker(announce)
TrNewTracker ==
    /\ trPc = "create"
    /\ trResult' = NewTracker(trAnnounce)
    /\ trPc' = "returned"
    /\ UNCHANGED trAnnounce

-----------------------------------------------------------------------------
(* Piece accounting: file piece ranges and expected piece lengths *)

\* The last piece takes the remainder even when it is 0.
PieceLengthNoCheck(pieceIndex, numPieces, length, pieceLength) ==
    IF pieceIndex = numPieces - 1 THEN GoMod(length, pieceLength)
    ELSE pieceLength

\* The head of downloadPieceFromPeers: the length expected for the piece.
PieceLength(pieceIndex, numPieces, length, pieceLength) ==
    IF pieceIndex = numPieces - 1 /\ GoMod(length, pieceLength) > 0
      THEN GoMod(length, pieceLength)
      ELSE pieceLength

\* pieceCount of one file in TorrentFromBencodeData.
PieceCount(fileLength, pieceLength) ==
    IF GoMod(fileLength, pieceLength) # 0
      THEN GoDiv(fileLength, pieceLength) + 1
      ELSE GoDiv(fileLength, pieceLength)

\* pieceIndex at the start of the round for file f of the loop.
RECURSIVE PieceIndexAt(_, _, _)
PieceIndexAt(lens, pieceLength, f) ==
    IF f <= 1 THEN 0
    ELSE PieceIndexAt(lens, pieceLength, f - 1)
           + PieceCount(lens[f - 1], pieceLength)

\* The loop that puts the piece indices in the files.
FileRanges(lens, pieceLength) ==
    [f \in 1..Len(lens) |->
        [first |-> PieceIndexAt(lens, pieceLength, f),
         last |-> PieceIndexAt(lens, pieceLength, f)
                    + PieceCount(lens[f], pieceLength) - 1]]

RECURSIVE SumSeq(_)
SumSeq(seq) == IF seq = <<>> THEN 0 ELSE Head(seq) + SumSeq(Tail(seq))

PaIdle ==
    /\ paFiles = <<>> /\ paPieceLength = 0 /\ paLength = 0
    /\ paRanges = <<>> /\ paExpected = <<>> /\ paPc = "idle"

\* The info dictionary is decoded: its files and its piece length, 0 when
\* the key is missing.
PaInit ==
    /\ paFiles \in UNION {[1..n -> 0..MaxFileLen] : n \in 1..MaxFiles}
    /\ paPieceLength \in 0..MaxPieceLen
    /\ paLength = 0
    /\ paRanges = <<>>
    /\ paExpected = <<>>
    /\ paPc = "parse"

\* TorrentFromBencodeData: the lengths are summed and the piece indices put
\* in the files; the division panics on a piece length of 0.
PaParse ==
    /\ paPc = "parse"
    /\ paLength' = TotalLength(paFiles)
    /\ IF paPieceLength = 0
         THEN paPc' = "panicked" /\ UNCHANGED paRanges
         ELSE /\ paRanges' = FileRanges(paFiles, paPieceLength)
              /\ paPc' = "download"
    /\ UNCHANGED <<paFiles, paPieceLength, paExpected>>

\* downloadPieceFromPeers is called for the next piece.
PaPiece ==
    /\ paPc = "download"
    /\ Len(paExpected) < NumPieces(paLength, paPieceLength)
    /\ paExpected' = Append(paExpected,
                            PieceLength(Len(paExpected),
                                        NumPieces(paLength, paPieceLength),
                                        paLength, paPieceLength))
    /\ UNCHANGED <<paFiles, paPieceLength, paLength, paRanges, paPc>>

\* Every piece was asked for.
PaDone ==
    /\ paPc = "download"
    /\ Len(paExpected) = NumPieces(paLength, paPieceLength)
    /\ paPc' = "done"
    /\ UNCHANGED <<paFiles, paPieceLength, paLength, paRanges, paExpected>>

-----------------------------------------------------------------------------
(* Progress reporter and the completion write of startDownloadFromPeers *)

\* float64(completedPieces) / float64(totalPieces) * 100.0, then int(...).
Percent(completedPieces, total) == (completedPieces * 100) \div total

StatusInProgress == "in progress"
StatusComplete == "complete"

\* time.Now().Unix() of the completion; 0 is the field's zero value.
Now == 1

\* A save by UpdateDownload: the record, who saved it, and whether the
\* workers had exited by then.
Saved(rec, by) == [rec |-> rec, by |-> by, workers |-> rpWorkers]

RpIdle ==
    /\ rpTotal = 0 /\ rpCompleted = 0 /\ rpWorkers = "idle"
    /\ rpDoneClosed = FALSE /\ rpErrClosed = FALSE /\ rpMainPc = "idle"
    /\ rpResult = "none" /\ rpRepPc = "idle" /\ rpProgress = 0
    /\ rpTicks = 0
    /\ rpModel = [status |-> StatusInProgress, progress |-> 0,
                  completedAt |-> 0]
    /\ rpStore = <<>>
    /\ rpMutex = "free"

\* The goroutines are started: the reporter is at its select, the workers
\* run, the main goroutine ranges over errChan.
RpInit ==
    /\ rpTotal \in 1..MaxPieces
    /\ rpCompleted = 0
    /\ rpWorkers = "running"
    /\ rpDoneClosed = FALSE /\ rpErrClosed = FALSE
    /\ rpMainPc = "drain"
    /\ rpResult = "none"
    /\ rpRepPc = "select"
    /\ rpProgress = 0
    /\ rpTicks = 0
    /\ rpModel = [status |-> StatusInProgress, progress |-> 0,
                  completedAt |-> 0]
    /\ rpStore = <<>>
    /\ rpMutex = "free"

\* downloadMutex.Lock() by who.
LockFree(who) == "free"
Lock(who) == who

\* A worker marks one more piece as downloaded, between Lock and Unlock.
RpMark ==
    /\ rpWorkers = "running" /\ rpCompleted < rpTotal
    /\ rpMutex = "free"
    /\ rpCompleted' = rpCompleted + 1
    /\ UNCHANGED <<rpTotal, rpWorkers, rpDoneClosed, rpErrClosed, rpMainPc,
                   rpResult, rpRepPc, rpProgress, rpTicks, rpModel, rpStore,
                   rpMutex>>

\* The queue was closed with the last piece; every worker leaves its loop.
RpWorkersExit ==
    /\ rpWorkers = "running" /\ rpCompleted = rpTotal
    /\ rpWorkers' = "exited"
    /\ UNCHANGED <<rpTotal, rpCompleted, rpDoneClosed, rpErrClosed, rpMainPc,
                   rpResult, rpRepPc, rpProgress, rpTicks, rpModel, rpStore,
                   rpMutex>>

\* wg.Wait() returns; close(doneChan).
RpCloseDone ==
    /\ rpWorkers = "exited" /\ ~rpDoneClosed
    /\ rpDoneClosed' = TRUE
    /\ UNCHANGED <<rpTotal, rpCompleted, rpWorkers, rpErrClosed, rpMainPc,
                   rpResult, rpRepPc, rpProgress, rpTicks, rpModel, rpStore,
                   rpMutex>>

\* close(errChan)
RpCloseErr ==
    /\ rpDoneClosed /\ ~rpErrClosed
    /\ rpErrClosed' = TRUE
    /\ UNCHANGED <<rpTotal, rpCompleted, rpWorkers, rpDoneClosed, rpMainPc,
                   rpResult, rpRepPc, rpProgress, rpTicks, rpModel, rpStore,
                   rpMutex>>

\* case <-ticker.C: downloadMutex.Lock()
RpTick ==
    /\ rpRepPc = "select" /\ rpTicks < MaxTicks
    /\ rpMutex = "free"
    /\ rpTicks' = rpTicks + 1
    /\ rpMutex' = Lock("reporter")
    /\ rpRepPc' = "count"
    /\ UNCHANGED <<rpTotal, rpCompleted, rpWorkers, rpDoneClosed, rpErrClosed,
                   rpMainPc, rpResult, rpProgress, rpModel, rpStore>>

\* The pieces are counted and progress computed; downloadMutex.Unlock()
RpCount ==
    /\ rpRepPc = "count"
    /\ rpProgress' = Percent(rpCompleted, rpTotal)
    /\ rpMutex' = "free"
    /\ rpRepPc' = "assign"
    /\ UNCHANGED <<rpTotal, rpCompleted, rpWorkers, rpDoneClosed, rpErrClosed,
                   rpMainPc, rpResult, rpTicks, rpModel, rpStore>>

\* dlModel.Progress = int(progress)
RpAssign ==
    /\ rpRepPc = "assign"
    /\ rpModel' = [rpModel EXCEPT !.progress = rpProgress]
    /\ rpRepPc' = "update"
    /\ UNCHANGED <<rpTotal, rpCompleted, rpWorkers, rpDoneClosed, rpErrClosed,
                   rpMainPc, rpResult, rpProgress, rpTicks, rpStore,
                   rpMutex>>

\* mainDB.UpdateDownload(dlModel) of the reporter.
RpUpdate ==
    /\ rpRepPc = "update"
    /\ rpStore' = Append(rpStore, Saved(rpModel, "reporter"))
    /\ rpRepPc' = "select"
    /\ UNCHANGED <<rpTotal, rpCompleted, rpWorkers, rpDoneClosed, rpErrClosed,
                   rpMainPc, rpResult, rpProgress, rpTicks, rpModel,
                   rpMutex>>

\* case <-doneChan: return
RpStop ==
    /\ rpRepPc = "select" /\ rpDoneClosed
    /\ rpRepPc' = "stopped"
    /\ UNCHANGED <<rpTotal, rpCompleted, rpWorkers, rpDoneClosed, rpErrClosed,
                   rpMainPc, rpResult, rpProgress, rpTicks, rpModel, rpStore,
                   rpMutex>>

\* The range over errChan ends; the scan of downloaded between Lock and
\* Unlock.
RpMainScan ==
    /\ rpMainPc = "drain" /\ rpErrClosed
    /\ rpMutex = "free"
    /\ IF rpCompleted = rpTotal
         THEN rpMainPc' = "set" /\ UNCHANGED rpResult
         ELSE rpMainPc' = "returned" /\ rpResult' = "incomplete"
    /\ UNCHANGED <<rpTotal, rpCompleted, rpWorkers, rpDoneClosed, rpErrClosed,
                   rpRepPc, rpProgress, rpTicks, rpModel, rpStore,
                   rpMutex>>

\* dlModel.Status, dlModel.Progress and dlModel.CompletedAt are set.
RpMainSet ==
    /\ rpMainPc = "set"
    /\ rpModel' = [status |-> StatusComplete, progress |-> 100,
                   completedAt |-> Now]
    /\ rpMainPc' = "update"
    /\ UNCHANGED <<rpTotal, rpCompleted, rpWorkers, rpDoneClosed, rpErrClosed,
                   rpResult, rpRepPc, rpProgress, rpTicks, rpStore,
                   rpMutex>>

\* mainDB.UpdateDownload(dlModel) of the main goroutine; return nil.
RpMainUpdate ==
    /\ rpMainPc = "update"
    /\ rpStore' = Append(rpStore, Saved(rpModel, "main"))
    /\ rpResult' = "nil"
    /\ rpMainPc' = "returned"
    /\ UNCHANGED <<rpTotal, rpCompleted, rpWorkers, rpDoneClosed, rpErrClosed,
                   rpRepPc, rpProgress, rpTicks, rpModel,
                   rpMutex>>

-----------------------------------------------------------------------------
(* Peer session: first message, Interested, downloadPieceFromChokedPeer *)

MsgChoke == 0
MsgUnchoke == 1
MsgInterested == 2
MsgNotInterested == 3
MsgHave == 4
MsgBitfield == 5
MsgRequest == 6
MsgPiece == 7
MsgCancel == 8
MsgPort == 9

BlockSize == 16384
MaxBacklog == 5

\* A run of len equal bytes; byte slices of the size of a piece are kept as
\* sequences of runs.
Run(len, fill) == [len |-> len, fill |-> fill]
NoData == Run(0, 0)

RECURSIVE RunsLen(_)
RunsLen(rs) == IF rs = <<>> THEN 0 ELSE Head(rs).len + RunsLen(Tail(rs))

\* rs[:n]
RECURSIVE TakeBytes(_, _)
TakeBytes(rs, n) ==
    IF n <= 0 \/ rs = <<>> THEN <<>>
    ELSE IF Head(rs).len <= n
      THEN <<Head(rs)>> \o TakeBytes(Tail(rs), n - Head(rs).len)
    ELSE <<Run(n, Head(rs).fill)>>

\* rs[n:]
RECURSIVE DropBytes(_, _)
DropBytes(rs, n) ==
    IF rs = <<>> THEN <<>>
    ELSE IF n <= 0 THEN rs
    ELSE IF Head(rs).len <= n THEN DropBytes(Tail(rs), n - Head(rs).len)
    ELSE <<Run(Head(rs).len - n, Head(rs).fill)>> \o Tail(rs)

\* The same bytes with empty runs dropped and equal neighbours joined.
RECURSIVE Merge(_)
Merge(rs) ==
    IF rs = <<>> THEN <<>>
    ELSE IF Head(rs).len = 0 THEN Merge(Tail(rs))
    ELSE LET rest == Merge(Tail(rs))
         IN  IF rest # <<>> /\ Head(rest).fill = Head(rs).fill
               THEN <<Run(Head(rs).len + Head(rest).len, Head(rs).fill)>>
                      \o Tail(rest)
               ELSE <<Head(rs)>> \o rest

\* make([]byte, n)
MakeBytes(n) == Merge(<<Run(n, 0)>>)

\* copy(buf[begin:], data): as many bytes as both sides have.
CopyAt(buf, begin, data) ==
    LET n == Min(data.len, RunsLen(buf) - begin)
    IN  Merge(TakeBytes(buf, begin) \o <<Run(n, data.fill)>>
                \o DropBytes(buf, begin + n))

\* A message: its type, the first bytes of its payload one by one, and the
\* block data that follows them in a piece message.
Msg(type, head, data) == [type |-> type, head |-> head, data |-> data]

\* len(msg.Payload)
PayloadLen(m) == Len(m.head) + m.data.len

PieceMsg(index, begin, data) ==
    Msg(MsgPiece, PutUint32(index) \o PutUint32(begin), data)

\* ParsePiece(payload)
ParsePiece(m) ==
    IF PayloadLen(m) < 2 * Len(PutUint32(0))
      THEN [err |-> "piece payload too short", index |-> 0, begin |-> 0,
            data |-> NoData]
      ELSE [err |-> "",
            index |-> Uint32(SubSeq(m.head, 1, 4)),
            begin |-> Uint32(SubSeq(m.head, 5, 8)),
            data |-> m.data]

\* ParseHave(payload)
ParseHave(m) ==
    IF PayloadLen(m) # Len(PutUint32(0))
      THEN [err |-> "have payload invalid length", index |-> 0]
      ELSE [err |-> "", index |-> Uint32(m.head)]

\* The message types this client has no use for, as it does not serve.
Unserved == {MsgInterested, MsgNotInterested, MsgRequest, MsgCancel, MsgPort}

\* handleMessage taking a message of a type it has no use for as an error.
HandleMessageStrict(choked, bitfield, m) ==
    IF m.type \in Unserved
      THEN [err |-> "unexpected message", choked |-> choked,
            bitfield |-> bitfield]
    ELSE IF m.type = MsgChoke
      THEN [err |-> "", choked |-> TRUE, bitfield |-> bitfield]
    ELSE IF m.type = MsgUnchoke
      THEN [err |-> "", choked |-> FALSE, bitfield |-> bitfield]
    ELSE [err |-> "", choked |-> choked, bitfield |-> bitfield]

\* handleMessage(state, msg, currentPieceIndex): the error and the fields of
\* state afterwards.
HandleMessage(choked, bitfield, m) ==
    IF m.type = MsgChoke
      THEN [err |-> "", choked |-> TRUE, bitfield |-> bitfield]
    ELSE IF m.type = MsgUnchoke
      THEN [err |-> "", choked |-> FALSE, bitfield |-> bitfield]
    ELSE IF m.type = MsgHave
      THEN IF ParseHave(m).err # ""
             THEN [err |-> ParseHave(m).err, choked |-> choked,
                   bitfield |-> bitfield]
             ELSE [err |-> "", choked |-> choked,
                   bitfield |-> SetPiece(bitfield, ParseHave(m).index)]
    ELSE [err |-> "", choked |-> choked, bitfield |-> bitfield]

\* totalBlocks
TotalBlocks(pieceLength) == GoDiv(pieceLength + BlockSize - 1, BlockSize)

\* The guard of the request loop without the test of peerChoked.
MayRequestChoked(choked, backlog, requestedBlocks, totalBlocks) ==
    backlog < MaxBacklog /\ requestedBlocks < totalBlocks

\* !state.peerChoked, and backlog < MaxBacklog && requestedBlocks <
\* totalBlocks
MayRequest(choked, backlog, requestedBlocks, totalBlocks) ==
    ~choked /\ backlog < MaxBacklog /\ requestedBlocks < totalBlocks

\* blockOffset and blockSize of the next request.
BlockOffset(requestedBlocks) == requestedBlocks * BlockSize
BlockLength(blockOffset, pieceLength) ==
    IF blockOffset + BlockSize > pieceLength THEN pieceLength - blockOffset
    ELSE BlockSize

\* The availability gate left out.
LacksPieceNever(bitfield, pieceIndex) == FALSE

\* !state.bitfield.HasPiece(pieceIndex)
LacksPiece(bitfield, pieceIndex) == ~HasPiece(bitfield, pieceIndex)

\* Every piece message taken as one for this piece.
WrongIndexNever(index, pieceIndex) == FALSE

\* int(index) != pieceIndex
WrongIndex(index, pieceIndex) == index # pieceIndex

\* What is written to the connection.
Written2(type, payload) == [type |-> type, payload |-> payload]

\* (len(tor.Pieces)+7)/8
BitfieldLen(numPieces) == GoDiv(numPieces + 7, BitsPerByte)

\* The first messages a peer may send: bitfields that have the piece or
\* not, of the right and of a wrong length, have messages, and others.
FirstMessages(numPieces, pieceIndex) ==
    LET n == BitfieldLen(numPieces)
        ones == [k \in 1..n |-> Byte - 1]
        bit == Pow2(BitsPerByte - 1 - GoMod(pieceIndex, BitsPerByte))
        at == GoDiv(pieceIndex, BitsPerByte) + 1
    IN  {Msg(MsgBitfield, bf, NoData) :
            bf \in {Zeros(n), ones, [Zeros(n) EXCEPT ![at] = bit],
                    [ones EXCEPT ![at] = Byte - 1 - bit], Zeros(n + 1),
                    [k \in 1..(n + 1) |-> Byte - 1], <<>>}}
        \cup {Msg(MsgHave, h, NoData) :
                h \in {PutUint32(pieceIndex),
                       PutUint32((pieceIndex + 1) % numPieces),
                       <<0, 0, 0>>}}
        \cup {Msg(t, <<>>, NoData) : t \in {MsgChoke, MsgUnchoke,
                                            MsgKeepAlive}}
        \cup {PieceMsg(pieceIndex, 0, Run(1, 1))}

\* The lowest and the highest offset in a set of offsets.
Ends(offsets) ==
    {b \in offsets : (\A c \in offsets : b <= c) \/ (\A c \in offsets : c <= b)}

\* The messages a peer may send in the request loop: messages without
\* payload, request, cancel and port, have, and piece messages: the answer to the oldest and to the
\* newest open request, one byte for the oldest, block 0 whether asked for
\* or not, the whole piece in one message, another piece's block, a block
\* beyond the end of the piece, and a payload too short.
LoopMessages ==
    {Msg(t, <<>>, NoData) : t \in {MsgChoke, MsgUnchoke, MsgKeepAlive,
                                   MsgInterested, MsgNotInterested}}
        \cup {Msg(t, FormatRequest(ssPieceIndex, 0, BlockSize), NoData) :
                t \in {MsgRequest, MsgCancel}}
        \cup {Msg(MsgPort, <<Byte - 1, 1>>, NoData)}
        \cup {Msg(MsgHave, h, NoData) :
                h \in {PutUint32(ssPieceIndex), <<0, 0, 0>>}}
        \cup {PieceMsg(ssPieceIndex, b,
                       Run(BlockLength(b, ssPieceLength),
                           1 + GoDiv(b, BlockSize))) :
                b \in Ends(ssOutstanding) \cup {0}}
        \cup {PieceMsg(ssPieceIndex, b, Run(1, Byte - 1)) :
                b \in {c \in ssOutstanding : \A d \in ssOutstanding : c <= d}}
        \cup {PieceMsg(ssPieceIndex, 0, Run(ssPieceLength, 1)),
              PieceMsg(ssPieceIndex + 1, 0, Run(1, Byte - 1)),
              PieceMsg(ssPieceIndex, ssPieceLength, Run(1, Byte - 1)),
              Msg(MsgPiece, PutUint32(ssPieceIndex), NoData)}

\* The piece lengths of the runs: one byte, one block, a block and a byte,
\* and six blocks.
SessionPieceLengths == {1, BlockSize, BlockSize + 1, 6 * BlockSize}

NoResult == [err |-> "", buf |-> <<>>]

\* choke and unchoke as the peer sent them.
ChokeAfter(last, m) ==
    IF m.type = MsgChoke THEN "choke"
    ELSE IF m.type = MsgUnchoke THEN "unchoke"
    ELSE last

SsIdle ==
    /\ ssNumPieces = 0 /\ ssPieceIndex = 0 /\ ssPieceLength = 0
    /\ ssPc = "idle" /\ ssChoked = TRUE /\ ssBitfield = <<>>
    /\ ssPieceBuf = <<>> /\ ssDownloadedBytes = 0 /\ ssRequestedBlocks = 0
    /\ ssReceivedBlocks = 0 /\ ssBacklog = 0 /\ ssSent = <<>>
    /\ ssReads = 0 /\ ssLast = Msg(MsgKeepAlive, <<>>, NoData)
    /\ ssLastChoke = "none" /\ ssOutstanding = {} /\ ssResult = NoResult

\* The handshake with the peer succeeded; state.peerChoked is true.
SsInit ==
    /\ ssNumPieces \in {2, BitsPerByte + 1}
    /\ ssPieceIndex \in {0, ssNumPieces - 1}
    /\ ssPieceLength \in SessionPieceLengths
    /\ ssPc = "first"
    /\ ssChoked = TRUE
    /\ ssBitfield = <<>>
    /\ ssPieceBuf = <<>>
    /\ ssDownloadedBytes = 0 /\ ssRequestedBlocks = 0
    /\ ssReceivedBlocks = 0 /\ ssBacklog = 0
    /\ ssSent = <<>>
    /\ ssReads = 0
    /\ ssLast = Msg(MsgKeepAlive, <<>>, NoData)
    /\ ssLastChoke = "none"
    /\ ssOutstanding = {}
    /\ ssResult = NoResult

\* The first message cannot be read: the next peer is tried.
SsFirstReadFails ==
    /\ ssPc = "first"
    /\ ssPc' = "next peer"
    /\ UNCHANGED <<ssNumPieces, ssPieceIndex, ssPieceLength, ssChoked,
                   ssBitfield, ssPieceBuf, ssDownloadedBytes, ssRequestedBlocks,
                   ssReceivedBlocks, ssBacklog, ssSent, ssReads, ssLast, ssLastChoke,
                   ssOutstanding, ssResult>>

\* The first message is read: a bitfield of the right length is taken, any
\* other message is handled on an empty bitfield; then the bitfield is
\* asked for the piece.
SsFirstMessage ==
    /\ ssPc = "first"
    /\ \E m \in FirstMessages(ssNumPieces, ssPieceIndex) :
          /\ ssLast' = m
          /\ ssLastChoke' = ChokeAfter(ssLastChoke, m)
          /\ IF m.type = MsgBitfield
               THEN IF PayloadLen(m) # BitfieldLen(ssNumPieces)
                      THEN /\ ssPc' = "next peer"
                           /\ UNCHANGED <<ssBitfield, ssChoked>>
                      ELSE /\ ssBitfield' = m.head
                           /\ ssPc' = IF LacksPiece(m.head, ssPieceIndex)
                                        THEN "next peer" ELSE "interested"
                           /\ UNCHANGED ssChoked
               ELSE LET h == HandleMessage(ssChoked,
                                           Zeros(BitfieldLen(ssNumPieces)), m)
                    IN  /\ ssBitfield' = h.bitfield
                        /\ ssChoked' = h.choked
                        /\ ssPc' = IF h.err # "" THEN "next peer"
                                   ELSE IF LacksPiece(h.bitfield,
                                                      ssPieceIndex)
                                     THEN "next peer"
                                   ELSE "interested"
    /\ UNCHANGED <<ssNumPieces, ssPieceIndex, ssPieceLength, ssPieceBuf,
                   ssDownloadedBytes, ssRequestedBlocks, ssReceivedBlocks, ssBacklog,
                   ssSent, ssReads, ssOutstanding, ssResult>>

\* Interested is written; downloadPieceFromChokedPeer makes its buffer.  On
\* a failed write the next peer is tried.
SsInterested ==
    /\ ssPc = "interested"
    /\ \/ /\ ssPc' = "next peer"
          /\ UNCHANGED <<ssSent, ssPieceBuf>>
       \/ /\ ssPc' = "loop"
          /\ ssSent' = Append(ssSent, Written2(MsgInterested, <<>>))
          /\ ssPieceBuf' = MakeBytes(ssPieceLength)
    /\ UNCHANGED <<ssNumPieces, ssPieceIndex, ssPieceLength, ssChoked,
                   ssBitfield, ssDownloadedBytes, ssRequestedBlocks, ssReceivedBlocks,
                   ssBacklog, ssReads, ssLast, ssLastChoke, ssOutstanding, ssResult>>

InLoop == ssPc = "loop" /\ ssReceivedBlocks < TotalBlocks(ssPieceLength)

\* case <-pieceDownloadTimeout
SsTimeout ==
    /\ InLoop
    /\ ssPc' = "failed"
    /\ ssResult' = [err |-> "piece download timed out", buf |-> <<>>]
    /\ UNCHANGED <<ssNumPieces, ssPieceIndex, ssPieceLength, ssChoked,
                   ssBitfield, ssPieceBuf, ssDownloadedBytes, ssRequestedBlocks,
                   ssReceivedBlocks, ssBacklog, ssSent, ssReads, ssLast, ssLastChoke,
                   ssOutstanding>>

\* state.sendRequest for the next block; a failed write ends the session.
SsSendRequest ==
    /\ InLoop
    /\ MayRequest(ssChoked, ssBacklog, ssRequestedBlocks,
                  TotalBlocks(ssPieceLength))
    /\ LET blockOffset == BlockOffset(ssRequestedBlocks)
           blockSize == BlockLength(blockOffset, ssPieceLength)
       IN  \/ /\ ssPc' = "failed"
              /\ ssResult' = [err |-> "failed to send request",
                              buf |-> <<>>]
              /\ UNCHANGED <<ssSent, ssRequestedBlocks, ssBacklog,
                             ssOutstanding>>
           \/ /\ ssSent' = Append(ssSent,
                                  Written2(MsgRequest,
                                           FormatRequest(ssPieceIndex,
                                                         blockOffset,
                                                         blockSize)))
              /\ ssRequestedBlocks' = ssRequestedBlocks + 1
              /\ ssBacklog' = ssBacklog + 1
              /\ ssOutstanding' = ssOutstanding \cup {blockOffset}
              /\ UNCHANGED <<ssPc, ssResult>>
    /\ UNCHANGED <<ssNumPieces, ssPieceIndex, ssPieceLength, ssChoked,
                   ssBitfield, ssPieceBuf, ssDownloadedBytes, ssReceivedBlocks, ssReads,
                   ssLast, ssLastChoke>>

\* readMessageWithTimeout fails.
SsReadFails ==
    /\ InLoop
    /\ ~MayRequest(ssChoked, ssBacklog, ssRequestedBlocks,
                   TotalBlocks(ssPieceLength))
    /\ ssPc' = "failed"
    /\ ssResult' = [err |-> "failed to read message", buf |-> <<>>]
    /\ UNCHANGED <<ssNumPieces, ssPieceIndex, ssPieceLength, ssChoked,
                   ssBitfield, ssPieceBuf, ssDownloadedBytes, ssRequestedBlocks,
                   ssReceivedBlocks, ssBacklog, ssSent, ssReads, ssLast, ssLastChoke,
                   ssOutstanding>>

\* The session ends with the error err.
SsFail(err) ==
    /\ ssPc' = "failed"
    /\ ssResult' = [err |-> err, buf |-> <<>>]
    /\ UNCHANGED <<ssPieceBuf, ssDownloadedBytes, ssReceivedBlocks, ssBacklog,
                   ssOutstanding>>

\* The loop goes on with nothing received.
SsContinue ==
    UNCHANGED <<ssPc, ssResult, ssPieceBuf, ssDownloadedBytes,
                ssReceivedBlocks, ssBacklog, ssOutstanding>>

\* A message is read and handled; a piece message is parsed and checked and
\* its data copied to the buffer.
SsRead ==
    /\ InLoop
    /\ ~MayRequest(ssChoked, ssBacklog, ssRequestedBlocks,
                   TotalBlocks(ssPieceLength))
    /\ ssReads < MaxMessages
    /\ ssReads' = ssReads + 1
    /\ \E m \in LoopMessages :
          LET h == HandleMessage(ssChoked, ssBitfield, m)
              piece == ParsePiece(m)
          IN  /\ ssLast' = m
              /\ ssLastChoke' = ChokeAfter(ssLastChoke, m)
              /\ ssChoked' = h.choked
              /\ ssBitfield' = h.bitfield
              /\ IF h.err # "" THEN SsFail("error handling message")
                 ELSE IF m.type # MsgPiece THEN SsContinue
                 ELSE IF piece.err # ""
                   THEN SsFail("failed to parse piece message")
                 ELSE IF WrongIndex(piece.index, ssPieceIndex)
                   THEN SsContinue
                 ELSE IF piece.begin + piece.data.len > ssPieceLength
                   THEN SsFail("received block data exceeds piece length")
                 ELSE /\ ssPieceBuf' = CopyAt(ssPieceBuf, piece.begin,
                                              piece.data)
                      /\ ssDownloadedBytes' =
                            ssDownloadedBytes + piece.data.len
                      /\ ssReceivedBlocks' = ssReceivedBlocks + 1
                      /\ ssBacklog' = ssBacklog - 1
                      /\ ssOutstanding' = ssOutstanding \ {piece.begin}
                      /\ UNCHANGED <<ssPc, ssResult>>
    /\ UNCHANGED <<ssNumPieces, ssPieceIndex, ssPieceLength,
                   ssRequestedBlocks, ssSent>>

\* The loop has ended: the byte count is compared and the buffer returned.
SsReturn ==
    /\ ssPc = "loop"
    /\ ssReceivedBlocks >= TotalBlocks(ssPieceLength)
    /\ IF ssDownloadedBytes # ssPieceLength
         THEN /\ ssPc' = "failed"
              /\ ssResult' = [err |-> "downloaded size mismatch",
                              buf |-> <<>>]
         ELSE /\ ssPc' = "returned"
              /\ ssResult' = [err |-> "", buf |-> ssPieceBuf]
    /\ UNCHANGED <<ssNumPieces, ssPieceIndex, ssPieceLength, ssChoked,
                   ssBitfield, ssPieceBuf, ssDownloadedBytes, ssRequestedBlocks,
                   ssReceivedBlocks, ssBacklog, ssSent, ssReads, ssLast, ssLastChoke,
                   ssOutstanding>>

-----------------------------------------------------------------------------
(* UDP tracker: GetPeers, acquireConnectionID, scrape, announce *)

actionConnect == 0
actionAnnounce == 1
actionScrape == 2
actionError == 3

\* 0x41727101980, and every other int64 connection id, as its high and its
\* low 32-bit word.
connectionID == <<1047, 655366528>>

\* rand.Int31() of the runs.
Txids == {1, 2}

\* The connection ids a tracker hands out in the runs.
ConnectionIDs == {<<0, 11>>, <<1, 11>>}

\* A request as written: the fields every request starts with.
UdpRequest(cid, action, transaction) ==
    [connectionID |-> cid, action |-> action, transaction |-> transaction]

\* What a read of the socket gives: nothing within the deadline (or too few
\* bytes for the fixed part), or a response: its fixed fields, then peers
\* whole 6-byte peer records and rest further bytes.
UdpReply(read, action, transaction, cid, interval, seeders, leechers, peers,
         rest) ==
    [read |-> read, action |-> action, transaction |-> transaction,
     connectionID |-> cid, interval |-> interval, seeders |-> seeders,
     leechers |-> leechers, peers |-> peers, rest |-> rest]

Unanswered == UdpReply(FALSE, 0, 0, <<0, 0>>, 0, 0, 0, 0, 0)

ConnectReplies ==
    {Unanswered}
        \cup {UdpReply(TRUE, a, x, c, 0, 0, 0, 0, 0) :
                a \in {actionConnect, actionError}, x \in Txids,
                c \in ConnectionIDs}

ScrapeReplies ==
    {Unanswered}
        \cup {UdpReply(TRUE, a, x, <<0, 0>>, 0, 3, 4, 0, 0) :
                a \in {actionScrape, actionError}, x \in Txids}

\* An announce response with no peer, with two, and with two bytes after
\* the last whole record, as when a datagram longer than the buffer of 1024
\* bytes is cut: (1024 - 20) % 6 = 2.
AnnounceReplies ==
    {Unanswered}
        \cup {UdpReply(TRUE, a, x, <<0, 0>>, 30, 5, 6, p, r) :
                a \in {actionAnnounce, actionError}, x \in Txids,
                p \in {0, 2}, r \in {0, 2}}

\* NewUDPTracker(announce)
NewUDPTracker ==
    [connectionID |-> <<0, 0>>, seeders |-> 0, leechers |-> 0, peers |-> <<>>,
     lastCheck |-> 0, nextCheck |-> 0, lastError |-> ""]

\* What a step gives: its error, the tracker afterwards, and whether it
\* panicked.
Outcome(err, t, panic) == [err |-> err, t |-> t, panic |-> panic]

\* The comparison of the transaction ids left out.
TransactionDiffersNever(got, sent) == FALSE

\* response.Transaction != transactionID
TransactionDiffers(got, sent) == got # sent

\* acquireConnectionID from the read of the response on.
AcquireConnectionID(t, transactionID, r) ==
    IF ~r.read THEN Outcome("read failed", t, FALSE)
    ELSE IF TransactionDiffers(r.transaction, transactionID)
      THEN Outcome("transaction ID mismatch", t, FALSE)
    ELSE IF r.action # 0 THEN Outcome("unexpected action", t, FALSE)
    ELSE Outcome("", [t EXCEPT !.connectionID = r.connectionID], FALSE)

\* scrape from the read of the response on.
Scrape(t, transactionID, r) ==
    IF ~r.read THEN Outcome("read failed", t, FALSE)
    ELSE IF TransactionDiffers(r.transaction, transactionID)
      THEN Outcome("transaction ID mismatch", t, FALSE)
    ELSE IF r.action # actionScrape
      THEN Outcome("unexpected action", t, FALSE)
    ELSE Outcome("", [t EXCEPT !.seeders = r.seeders,
                               !.leechers = r.leechers,
                               !.lastCheck = Now], FALSE)

\* announce from the read of the response on: the loop over the peer
\* records indexes readBytes[0] to readBytes[5] while any byte is left, and
\* panics on a last record of fewer than six bytes.
Announce(t, transactionID, r) ==
    IF ~r.read THEN Outcome("read failed", t, FALSE)
    ELSE IF TransactionDiffers(r.transaction, transactionID)
      THEN Outcome("transaction ID mismatch", t, FALSE)
    ELSE IF r.action # actionAnnounce
      THEN Outcome("unexpected action", t, FALSE)
    ELSE LET counted == [t EXCEPT !.leechers = r.leechers,
                                  !.seeders = r.seeders,
                                  !.peers = [k \in 1..r.peers |-> k]]
         IN  IF r.rest # 0 THEN Outcome("", counted, TRUE)
             ELSE Outcome("", [counted EXCEPT
                                  !.lastCheck = Now,
                                  !.nextCheck = Now + r.interval], FALSE)

NotReturned == [err |-> "", peers |-> <<>>]

UtIdle ==
    /\ utPc = "idle" /\ utSocket = "none" /\ utT = NewUDPTracker
    /\ utSent = <<>> /\ utReplies = <<>> /\ utResult = NotReturned
    /\ utCalls = 0

\* A tracker made by NewUDPTracker, and the first call of GetPeers on it.
UtInit ==
    /\ utPc = "dial" /\ utSocket = "none" /\ utT = NewUDPTracker
    /\ utSent = <<>> /\ utReplies = <<>> /\ utResult = NotReturned
    /\ utCalls = 1

\* t.lastError = err; return t.peers, err, after the deferred disconnect.
UtReturnError(t, err) ==
    /\ utT' = [t EXCEPT !.lastError = err]
    /\ utResult' = [err |-> err, peers |-> t.peers]
    /\ utPc' = "returned"

\* t.connect(): the socket is opened, or GetPeers returns the error before
\* disconnect is deferred.
UtConnect ==
    /\ utPc = "dial"
    /\ \/ /\ utSocket' = "open"
          /\ utPc' = "connect"
          /\ UNCHANGED <<utT, utResult>>
       \/ /\ UtReturnError(utT, "dial failed")
          /\ UNCHANGED utSocket
    /\ UNCHANGED <<utSent, utReplies, utCalls>>

\* A step writes its request with a fresh transaction id; a failed write
\* ends GetPeers.
UtWrite(step, reading, action, cid) ==
    /\ utPc = step
    /\ \/ \E x \in Txids :
             /\ utSent' = Append(utSent, UdpRequest(cid, action, x))
             /\ utPc' = reading
             /\ UNCHANGED <<utSocket, utT, utResult>>
       \/ /\ UtReturnError(utT, "write failed")
          /\ utSocket' = "closed"
          /\ UNCHANGED utSent
    /\ UNCHANGED <<utReplies, utCalls>>

\* A step reads its response; on an error GetPeers returns it, on a panic
\* the deferred disconnect runs and GetPeers returns nothing.
UtRead(reading, r, o, next) ==
    /\ utPc = reading
    /\ utReplies' = Append(utReplies, r)
    /\ IF o.panic
         THEN /\ utT' = o.t /\ utPc' = "panicked" /\ utSocket' = "closed"
              /\ UNCHANGED utResult
       ELSE IF o.err # ""
         THEN UtReturnError(o.t, o.err) /\ utSocket' = "closed"
       ELSE IF next = "returned"
         THEN /\ utT' = o.t /\ utPc' = "returned" /\ utSocket' = "closed"
              /\ utResult' = [err |-> "", peers |-> o.t.peers]
       ELSE /\ utT' = o.t /\ utPc' = next
            /\ UNCHANGED <<utSocket, utResult>>
    /\ UNCHANGED <<utSent, utCalls>>

Sent == utSent[Len(utSent)].transaction

UtWriteConnect ==
    UtWrite("connect", "connect read", actionConnect, connectionID)

UtReadConnect ==
    \E r \in ConnectReplies :
        UtRead("connect read", r, AcquireConnectionID(utT, Sent, r), "scrape")

UtWriteScrape ==
    UtWrite("scrape", "scrape read", actionScrape, utT.connectionID)

UtReadScrape ==
    \E r \in ScrapeReplies :
        UtRead("scrape read", r, Scrape(utT, Sent, r), "announce")

UtWriteAnnounce ==
    UtWrite("announce", "announce read", actionAnnounce, utT.connectionID)

UtReadAnnounce ==
    \E r \in AnnounceReplies :
        UtRead("announce read", r, Announce(utT, Sent, r), "returned")

\* The caller calls GetPeers on the same tracker again.
UtGetPeers ==
    /\ utPc = "returned" /\ utCalls < MaxCalls
    /\ utCalls' = utCalls + 1
    /\ utPc' = "dial"
    /\ utSent' = <<>> /\ utReplies' = <<>> /\ utResult' = NotReturned
    /\ UNCHANGED <<utSocket, utT>>

-----------------------------------------------------------------------------
(* createEmptyFiles and the start of startDownloadFromPeers *)

\* filepath.Clean of a path given by its components, seen from downloadPath:
\* a ".." takes the component before it away, or stays when there is none.
RECURSIVE CleanFrom(_, _)
CleanFrom(done, todo) ==
    IF todo = <<>> THEN done
    ELSE IF Head(todo) = ".." /\ done # <<>> /\ done[Len(done)] # ".."
      THEN CleanFrom(SubSeq(done, 1, Len(done) - 1), Tail(todo))
    ELSE CleanFrom(Append(done, Head(todo)), Tail(todo))

\* filepath.Join(downloadPath, file.Path), as a path from downloadPath.
FilePath(path) == CleanFrom(<<>>, path)

\* filepath.Dir(filePath)
DirOf(filePath) == SubSeq(filePath, 1, Len(filePath) - 1)

\* The path and every directory above it, up to downloadPath.
Ancestors(p) == {SubSeq(p, 1, n) : n \in 0..Len(p)}

\* The paths of the files of the runs: plain names, a name in a directory,
\* and paths with "..".
EntryPaths ==
    {<<"a">>, <<"b">>, <<"d", "a">>, <<"d", "..", "a">>, <<"..", "a">>}

FileEntry(path, length) == [path |-> path, length |-> length]

FileEntries ==
    {FileEntry(p, n) : p \in EntryPaths, n \in 0..MaxFileLen}

\* The file lists of the runs.
EntryLists ==
    UNION {[1..n -> FileEntries] : n \in 1..MaxEntries}

OnDisk(path, length) == [path |-> path, len |-> length]

\* downloadPath and the directory above it exist.
EmptyRoot == {<<>>, <<"..">>}

\* os.MkdirAll(dir) cannot succeed: dir or a directory above it is a file.
MkdirAllBlocked(dir, files) ==
    \E f \in files : f.path \in Ancestors(dir)

\* os.Create(filePath) cannot succeed: the path is a directory.
CreateBlocked(filePath, dirs) == filePath \in dirs

\* The file at filePath with the length len, in place of what was there.
PutFile(files, filePath, len) ==
    {f \in files : f.path # filePath} \cup {OnDisk(filePath, len)}

CeIdle ==
    /\ ceList = <<>> /\ ceNumPieces = 0 /\ ceK = 0 /\ cePc = "idle"
    /\ ceFiles = {} /\ ceDirs = {} /\ ceFailed = FALSE
    /\ ceResult = "none" /\ ceStarted = FALSE

\* startDownloadFromPeers is called with an empty download directory.
CeInit ==
    /\ ceList \in EntryLists
    /\ ceNumPieces \in {0, 1}
    /\ ceK = 1
    /\ cePc = "mkdir"
    /\ ceFiles = {}
    /\ ceDirs = EmptyRoot
    /\ ceFailed = FALSE
    /\ ceResult = "none"
    /\ ceStarted = FALSE

\* createEmptyFiles returns err; startDownloadFromPeers returns "failed to
\* create files".
CeFail ==
    /\ ceFailed' = TRUE
    /\ cePc' = "returned"
    /\ ceResult' = "failed to create files"
    /\ UNCHANGED <<ceK, ceStarted>>

\* os.MkdirAll(filepath.Dir(filePath), os.ModePerm)
CeMkdirAll ==
    /\ cePc = "mkdir"
    /\ LET dir == DirOf(FilePath(ceList[ceK].path))
       IN  \/ /\ ~MkdirAllBlocked(dir, ceFiles)
              /\ ceDirs' = ceDirs \cup Ancestors(dir)
              /\ cePc' = "create"
              /\ UNCHANGED <<ceK, ceFailed, ceResult, ceStarted>>
           \/ CeFail /\ UNCHANGED ceDirs
    /\ UNCHANGED <<ceList, ceNumPieces, ceFiles>>

\* os.Create(filePath): the file is made, or cut to no bytes.
CeCreate ==
    /\ cePc = "create"
    /\ LET filePath == FilePath(ceList[ceK].path)
       IN  \/ /\ ~CreateBlocked(filePath, ceDirs)
              /\ ceFiles' = PutFile(ceFiles, filePath, 0)
              /\ cePc' = "truncate"
              /\ UNCHANGED <<ceK, ceFailed, ceResult, ceStarted>>
           \/ CeFail /\ UNCHANGED ceFiles
    /\ UNCHANGED <<ceList, ceNumPieces, ceDirs>>

\* f.Truncate(file.Length); f.Close(); the next file, or return nil.
CeTruncate ==
    /\ cePc = "truncate"
    /\ \/ /\ ceFiles' = PutFile(ceFiles, FilePath(ceList[ceK].path),
                                ceList[ceK].length)
          /\ IF ceK < Len(ceList)
               THEN ceK' = ceK + 1 /\ cePc' = "mkdir"
               ELSE cePc' = "created" /\ UNCHANGED ceK
          /\ UNCHANGED <<ceFailed, ceResult, ceStarted>>
       \/ CeFail /\ UNCHANGED ceFiles
    /\ UNCHANGED <<ceList, ceNumPieces, ceDirs>>

\* createEmptyFiles returned nil: without pieces startDownloadFromPeers
\* returns an error, else the queue is filled and the workers are started.
CeStart ==
    /\ cePc = "created"
    /\ IF ceNumPieces = 0
         THEN /\ cePc' = "returned" /\ ceResult' = "no pieces found"
              /\ UNCHANGED ceStarted
         ELSE /\ cePc' = "running" /\ ceStarted' = TRUE
              /\ UNCHANGED ceResult
    /\ UNCHANGED <<ceList, ceNumPieces, ceK, ceFiles, ceDirs, ceFailed>>

-----------------------------------------------------------------------------
(* Specifications: one per subsystem; the other subsystems stay idle *)

OthersIdleForOrch ==
    /\ WbIdle
    /\ DtIdle
    /\ CpIdle
    /\ VfIdle
    /\ IhIdle
    /\ BcIdle
    /\ BfIdle
    /\ MsIdle
    /\ HsIdle
    /\ TrIdle
    /\ PaIdle
    /\ RpIdle
    /\ SsIdle
    /\ UtIdle
    /\ CeIdle

\* What the orchestrator leaves alone.
OrchFrame == UNCHANGED <<wfVars, dtVars, cpVars, vfVars, ihVars, bcVars,
    bfVars, msVars, hsVars, trVars, paVars, rpVars, ssVars, utVars, ceVars>>

OrchNext ==
    \/ SetupFail /\ OrchFrame
    \/ Setup /\ OrchFrame
    \/ \E w \in Workers : Recv(w) /\ OrchFrame
    \/ \E w \in Workers : Exit(w) /\ OrchFrame
    \/ \E w \in Workers : Check(w) /\ OrchFrame
    \/ \E w \in Workers : DownloadIntact(w) /\ OrchFrame
    \/ \E w \in Workers : DownloadCorrupt(w) /\ OrchFrame
    \/ \E w \in Workers : DownloadFail(w) /\ OrchFrame
    \/ \E w \in Workers : WriteOk(w) /\ OrchFrame
    \/ \E w \in Workers : WriteFail(w) /\ OrchFrame
    \/ \E w \in Workers : ErrSend(w) /\ OrchFrame
    \/ \E w \in Workers : Requeue(w) /\ OrchFrame
    \/ \E w \in Workers : Mark(w) /\ OrchFrame
    \/ CloserWait /\ OrchFrame
    \/ CloserCloseErr /\ OrchFrame
    \/ MainDrain /\ OrchFrame
    \/ MainFinish /\ OrchFrame

SpecInit == OrchInit /\ OthersIdleForOrch

Spec == SpecInit /\ [][OrchNext]_vars

\* The orchestrator under fair scheduling: a goroutine that can run is run.
SpecRetry == SpecInit /\ [][OrchNext]_vars /\ WF_vars(OrchNext)

\* The orchestrator when every downloadPieceFromPeers delivers the intact
\* buffer and every file operation succeeds, under fair scheduling.
DeliverInit == OrchStart(DeliverPeerCounts, 1..MaxPieces)

DeliverNext ==
    \/ Setup /\ OrchFrame
    \/ \E w \in Workers : Recv(w) /\ OrchFrame
    \/ \E w \in Workers : Exit(w) /\ OrchFrame
    \/ \E w \in Workers : Check(w) /\ OrchFrame
    \/ \E w \in Workers : DownloadIntact(w) /\ OrchFrame
    \/ \E w \in Workers : WriteOk(w) /\ OrchFrame
    \/ \E w \in Workers : Mark(w) /\ OrchFrame
    \/ CloserWait /\ OrchFrame
    \/ CloserCloseErr /\ OrchFrame
    \/ MainFinish /\ OrchFrame

SpecDeliverInit == DeliverInit /\ OthersIdleForOrch

SpecDeliver ==
    SpecDeliverInit /\ [][DeliverNext]_vars /\ WF_vars(DeliverNext)

OthersIdleForWb ==
    /\ OrchIdle
    /\ DtIdle
    /\ CpIdle
    /\ VfIdle
    /\ IhIdle
    /\ BcIdle
    /\ BfIdle
    /\ MsIdle
    /\ HsIdle
    /\ TrIdle
    /\ PaIdle
    /\ RpIdle
    /\ SsIdle
    /\ UtIdle
    /\ CeIdle

WbFrame == UNCHANGED <<orchVars, dtVars, cpVars, vfVars, ihVars, bcVars,
    bfVars, msVars, hsVars, trVars, paVars, rpVars, ssVars, utVars, ceVars>>

WbNext == \E i \in WbPieces : WbWritePiece(i) /\ WbFrame

WritebackInit == WbInit /\ OthersIdleForWb

SpecWriteback == WritebackInit /\ [][WbNext]_vars

OthersIdleForDt ==
    /\ OrchIdle
    /\ WbIdle
    /\ CpIdle
    /\ VfIdle
    /\ IhIdle
    /\ BcIdle
    /\ BfIdle
    /\ MsIdle
    /\ HsIdle
    /\ TrIdle
    /\ PaIdle
    /\ RpIdle
    /\ SsIdle
    /\ UtIdle
    /\ CeIdle

DtFrame == UNCHANGED <<orchVars, wfVars, cpVars, vfVars, ihVars, bcVars,
    bfVars, msVars, hsVars, trVars, paVars, rpVars, ssVars, utVars, ceVars>>

DtNext ==
    \/ DtSpawn /\ DtFrame
    \/ \E t \in Tasks : DtGetPeers(t) /\ DtFrame
    \/ \E t \in Tasks : DtLookup(t) /\ DtFrame
    \/ \E t \in Tasks : DtBeginInsert(t) /\ DtFrame
    \/ \E t \in Tasks : DtEndInsert(t) /\ DtFrame
    \/ \E t \in Tasks : DtCreatePeer(t) /\ DtFrame
    \/ \E t \in Tasks : DtUpdate(t) /\ DtFrame
    \/ DtJoin /\ DtFrame

FanoutInit == DtInit /\ OthersIdleForDt

SpecFanout == FanoutInit /\ [][DtNext]_vars

OthersIdleForCp ==
    /\ OrchIdle
    /\ WbIdle
    /\ DtIdle
    /\ VfIdle
    /\ IhIdle
    /\ BcIdle
    /\ BfIdle
    /\ MsIdle
    /\ HsIdle
    /\ TrIdle
    /\ PaIdle
    /\ RpIdle
    /\ SsIdle
    /\ UtIdle
    /\ CeIdle

CpFrame == UNCHANGED <<orchVars, wfVars, dtVars, vfVars, ihVars, bcVars,
    bfVars, msVars, hsVars, trVars, paVars, rpVars, ssVars, utVars, ceVars>>

CpNext ==
    \/ CpDial /\ CpFrame
    \/ CpHandshake /\ CpFrame
    \/ CpFirstMessage /\ CpFrame
    \/ CpInterested /\ CpFrame
    \/ CpSession /\ CpFrame

PeersInit == CpInit /\ OthersIdleForCp

SpecPeers == PeersInit /\ [][CpNext]_vars

OthersIdleForVf ==
    /\ OrchIdle
    /\ WbIdle
    /\ DtIdle
    /\ CpIdle
    /\ IhIdle
    /\ BcIdle
    /\ BfIdle
    /\ MsIdle
    /\ HsIdle
    /\ TrIdle
    /\ PaIdle
    /\ RpIdle
    /\ SsIdle
    /\ UtIdle
    /\ CeIdle

VfFrame == UNCHANGED <<orchVars, wfVars, dtVars, cpVars, ihVars, bcVars,
    bfVars, msVars, hsVars, trVars, paVars, rpVars, ssVars, utVars, ceVars>>

VfNext ==
    \/ VfStat /\ VfFrame
    \/ VfRead /\ VfFrame

VerifyInit == VfInit /\ OthersIdleForVf

SpecVerify == VerifyInit /\ [][VfNext]_vars

OthersIdleForIh ==
    /\ OrchIdle
    /\ WbIdle
    /\ DtIdle
    /\ CpIdle
    /\ VfIdle
    /\ BcIdle
    /\ BfIdle
    /\ MsIdle
    /\ HsIdle
    /\ TrIdle
    /\ PaIdle
    /\ RpIdle
    /\ SsIdle
    /\ UtIdle
    /\ CeIdle

IhFrame == UNCHANGED <<orchVars, wfVars, dtVars, cpVars, vfVars, bcVars,
    bfVars, msVars, hsVars, trVars, paVars, rpVars, ssVars, utVars, ceVars>>

IhNext == IhParse /\ IhFrame

InfoHashInit == IhInit /\ OthersIdleForIh

SpecInfoHash == InfoHashInit /\ [][IhNext]_vars

OthersIdleForBc ==
    /\ OrchIdle
    /\ WbIdle
    /\ DtIdle
    /\ CpIdle
    /\ VfIdle
    /\ IhIdle
    /\ BfIdle
    /\ MsIdle
    /\ HsIdle
    /\ TrIdle
    /\ PaIdle
    /\ RpIdle
    /\ SsIdle
    /\ UtIdle
    /\ CeIdle

BcFrame == UNCHANGED <<orchVars, wfVars, dtVars, cpVars, vfVars, ihVars,
    bfVars, msVars, hsVars, trVars, paVars, rpVars, ssVars, utVars, ceVars>>

BcNext ==
    \/ BcDecode /\ BcFrame
    \/ BcEncode /\ BcFrame

CodecInit == BcInit /\ OthersIdleForBc

SpecCodec == CodecInit /\ [][BcNext]_vars

OthersIdleForBf ==
    /\ OrchIdle
    /\ WbIdle
    /\ DtIdle
    /\ CpIdle
    /\ VfIdle
    /\ IhIdle
    /\ BcIdle
    /\ MsIdle
    /\ HsIdle
    /\ TrIdle
    /\ PaIdle
    /\ RpIdle
    /\ SsIdle
    /\ UtIdle
    /\ CeIdle

BfFrame == UNCHANGED <<orchVars, wfVars, dtVars, cpVars, vfVars, ihVars,
    bcVars, msVars, hsVars, trVars, paVars, rpVars, ssVars, utVars, ceVars>>

BfNext == \E i \in BfIndices(bfNum) : BfSetPiece(i) /\ BfFrame

BitfieldInit == BfInit /\ OthersIdleForBf

SpecBitfield == BitfieldInit /\ [][BfNext]_vars

OthersIdleForMs ==
    /\ OrchIdle
    /\ WbIdle
    /\ DtIdle
    /\ CpIdle
    /\ VfIdle
    /\ IhIdle
    /\ BcIdle
    /\ BfIdle
    /\ HsIdle
    /\ TrIdle
    /\ PaIdle
    /\ RpIdle
    /\ SsIdle
    /\ UtIdle
    /\ CeIdle

MsFrame == UNCHANGED <<orchVars, wfVars, dtVars, cpVars, vfVars, ihVars,
    bcVars, bfVars, hsVars, trVars, paVars, rpVars, ssVars, utVars, ceVars>>

MsNext ==
    \/ MsSerialize /\ MsFrame
    \/ MsReadMessage /\ MsFrame

FramingInit == MsInit /\ OthersIdleForMs

SpecFraming == FramingInit /\ [][MsNext]_vars

OthersIdleForHs ==
    /\ OrchIdle
    /\ WbIdle
    /\ DtIdle
    /\ CpIdle
    /\ VfIdle
    /\ IhIdle
    /\ BcIdle
    /\ BfIdle
    /\ MsIdle
    /\ TrIdle
    /\ PaIdle
    /\ RpIdle
    /\ SsIdle
    /\ UtIdle
    /\ CeIdle

HsFrame == UNCHANGED <<orchVars, wfVars, dtVars, cpVars, vfVars, ihVars,
    bcVars, bfVars, msVars, trVars, paVars, rpVars, ssVars, utVars, ceVars>>

HsNext ==
    \/ HsPerform /\ HsFrame
    \/ HsInterested /\ HsFrame
    \/ HsRequest /\ HsFrame
    \/ HsLeave /\ HsFrame

HandshakeInit == HsInit /\ OthersIdleForHs

SpecHandshake == HandshakeInit /\ [][HsNext]_vars

OthersIdleForTr ==
    /\ OrchIdle
    /\ WbIdle
    /\ DtIdle
    /\ CpIdle
    /\ VfIdle
    /\ IhIdle
    /\ BcIdle
    /\ BfIdle
    /\ MsIdle
    /\ HsIdle
    /\ PaIdle
    /\ RpIdle
    /\ SsIdle
    /\ UtIdle
    /\ CeIdle

TrFrame == UNCHANGED <<orchVars, wfVars, dtVars, cpVars, vfVars, ihVars,
    bcVars, bfVars, msVars, hsVars, paVars, rpVars, ssVars, utVars, ceVars>>

TrNext ==
    \/ TrNewTracker /\ TrFrame

TrackerInit == TrInit /\ OthersIdleForTr

SpecTracker == TrackerInit /\ [][TrNext]_vars

OthersIdleForPa ==
    /\ OrchIdle
    /\ WbIdle
    /\ DtIdle
    /\ CpIdle
    /\ VfIdle
    /\ IhIdle
    /\ BcIdle
    /\ BfIdle
    /\ MsIdle
    /\ HsIdle
    /\ TrIdle
    /\ RpIdle
    /\ SsIdle
    /\ UtIdle
    /\ CeIdle

PaFrame == UNCHANGED <<orchVars, wfVars, dtVars, cpVars, vfVars, ihVars,
    bcVars, bfVars, msVars, hsVars, trVars, rpVars, ssVars, utVars, ceVars>>

PaNext ==
    \/ PaParse /\ PaFrame
    \/ PaPiece /\ PaFrame
    \/ PaDone /\ PaFrame

AccountingInit == PaInit /\ OthersIdleForPa

SpecAccounting == AccountingInit /\ [][PaNext]_vars

OthersIdleForRp ==
    /\ OrchIdle
    /\ WbIdle
    /\ DtIdle
    /\ CpIdle
    /\ VfIdle
    /\ IhIdle
    /\ BcIdle
    /\ BfIdle
    /\ MsIdle
    /\ HsIdle
    /\ TrIdle
    /\ PaIdle
    /\ SsIdle
    /\ UtIdle
    /\ CeIdle

RpFrame == UNCHANGED <<orchVars, wfVars, dtVars, cpVars, vfVars, ihVars,
    bcVars, bfVars, msVars, hsVars, trVars, paVars, ssVars, utVars, ceVars>>

RpNext ==
    \/ RpMark /\ RpFrame
    \/ RpWorkersExit /\ RpFrame
    \/ RpCloseDone /\ RpFrame
    \/ RpCloseErr /\ RpFrame
    \/ RpTick /\ RpFrame
    \/ RpCount /\ RpFrame
    \/ RpAssign /\ RpFrame
    \/ RpUpdate /\ RpFrame
    \/ RpStop /\ RpFrame
    \/ RpMainScan /\ RpFrame
    \/ RpMainSet /\ RpFrame
    \/ RpMainUpdate /\ RpFrame

ReportInit == RpInit /\ OthersIdleForRp

SpecReport == ReportInit /\ [][RpNext]_vars

\* The goroutines are scheduled, and a select with a closed doneChan takes
\* that case sooner or later.
SpecReportFair ==
    ReportInit /\ [][RpNext]_vars /\ WF_vars(RpNext)
        /\ SF_vars(RpStop /\ RpFrame)

OthersIdleForSs ==
    /\ OrchIdle
    /\ WbIdle
    /\ DtIdle
    /\ CpIdle
    /\ VfIdle
    /\ IhIdle
    /\ BcIdle
    /\ BfIdle
    /\ MsIdle
    /\ HsIdle
    /\ TrIdle
    /\ PaIdle
    /\ RpIdle
    /\ UtIdle
    /\ CeIdle

SsFrame == UNCHANGED <<orchVars, wfVars, dtVars, cpVars, vfVars, ihVars,
    bcVars, bfVars, msVars, hsVars, trVars, paVars, rpVars, utVars, ceVars>>

SsNext ==
    \/ SsFirstReadFails /\ SsFrame
    \/ SsFirstMessage /\ SsFrame
    \/ SsInterested /\ SsFrame
    \/ SsTimeout /\ SsFrame
    \/ SsSendRequest /\ SsFrame
    \/ SsReadFails /\ SsFrame
    \/ SsRead /\ SsFrame
    \/ SsReturn /\ SsFrame

SessionInit == SsInit /\ OthersIdleForSs

SpecSession == SessionInit /\ [][SsNext]_vars

OthersIdleForUt ==
    /\ OrchIdle
    /\ WbIdle
    /\ DtIdle
    /\ CpIdle
    /\ VfIdle
    /\ IhIdle
    /\ BcIdle
    /\ BfIdle
    /\ MsIdle
    /\ HsIdle
    /\ TrIdle
    /\ PaIdle
    /\ RpIdle
    /\ SsIdle
    /\ CeIdle

UtFrame == UNCHANGED <<orchVars, wfVars, dtVars, cpVars, vfVars, ihVars,
    bcVars, bfVars, msVars, hsVars, trVars, paVars, rpVars, ssVars, ceVars>>

UtNext ==
    \/ UtConnect /\ UtFrame
    \/ UtWriteConnect /\ UtFrame
    \/ UtReadConnect /\ UtFrame
    \/ UtWriteScrape /\ UtFrame
    \/ UtReadScrape /\ UtFrame
    \/ UtWriteAnnounce /\ UtFrame
    \/ UtReadAnnounce /\ UtFrame
    \/ UtGetPeers /\ UtFrame

UdpInit == UtInit /\ OthersIdleForUt

SpecUdp == UdpInit /\ [][UtNext]_vars

OthersIdleForCe ==
    /\ OrchIdle
    /\ WbIdle
    /\ DtIdle
    /\ CpIdle
    /\ VfIdle
    /\ IhIdle
    /\ BcIdle
    /\ BfIdle
    /\ MsIdle
    /\ HsIdle
    /\ TrIdle
    /\ PaIdle
    /\ RpIdle
    /\ SsIdle
    /\ UtIdle

CeFrame == UNCHANGED <<orchVars, wfVars, dtVars, cpVars, vfVars, ihVars,
    bcVars, bfVars, msVars, hsVars, trVars, paVars, rpVars, ssVars, utVars>>

CeNext ==
    \/ CeMkdirAll /\ CeFrame
    \/ CeCreate /\ CeFrame
    \/ CeTruncate /\ CeFrame
    \/ CeStart /\ CeFrame

CreateInit == CeInit /\ OthersIdleForCe

SpecCreate == CreateInit /\ [][CeNext]_vars

-----------------------------------------------------------------------------
(* Claims on the orchestrator *)

Holding(w) == wpiece[w] # NoPiece

\* C1: once the workers were started, startDownloadFromPeers returns nil if
\* and only if every downloaded[i] is true when it returns, and the
\* 'download incomplete' error otherwise.
C1_NilIffAllDownloaded ==
    (Started /\ mainPc = "returned") =>
        /\ (result = "nil") <=> AllDownloaded
        /\ (result = "incomplete") <=> ~AllDownloaded

C1_Witness ==
    /\ Started /\ mainPc = "returned" /\ result = "nil"
    /\ totalPieces = 2 /\ failures > 0

\* C2: a piece index is held by at most one worker, and an index a worker
\* holds is not in the queue; so no two workers are in writePiece for the
\* same index.
C2_OneHolderPerPiece ==
    Started =>
        /\ \A w1, w2 \in Workers :
              (w1 # w2 /\ Holding(w1) /\ Holding(w2)) => wpiece[w1] # wpiece[w2]
        /\ \A w \in Workers :
              Holding(w) => wpiece[w] \notin SeqToSet(pieceQueue)
        /\ \A i \in PieceIdx :
              Cardinality({k \in 1..Len(pieceQueue) : pieceQueue[k] = i}) <= 1

C2_Witness ==
    /\ Started
    /\ \E w1, w2 \in Workers :
          /\ w1 # w2 /\ wpc[w1] = "write" /\ wpc[w2] = "write"
          /\ failures > 0

\* C3: downloaded[i], once true, stays true, and from then on piece i is in
\* no worker's hands and not in the queue, and its bytes on disk do not change.
C3_DoneIsFinal ==
    [][Started =>
        \A i \in PieceIdx :
            /\ downloaded[i] => (downloaded'[i] /\ disk'[i] = disk[i])
            /\ downloaded'[i] =>
                  /\ i \notin SeqToSet(pieceQueue')
                  /\ \A w \in Workers : wpiece'[w] # i]_vars

C3_Witness ==
    /\ Started /\ totalPieces = 2
    /\ downloaded[0] /\ ~downloaded[1]
    /\ \E w \in Workers : wpc[w] = "write" /\ wpiece[w] = 1
    /\ failures > 0

\* C4: downloaded[i] becomes true only in the hands of a worker whose buffer
\* hashes to pieces[i] and whose writePiece put that buffer on disk; only
\* buffers that hash to pieces[i] are ever written; and a worker whose buffer
\* does not hash to pieces[i] writes nothing, leaves downloaded alone and puts
\* i back into the queue.
C4_MarkOnlyVerifiedAndWritten ==
    [][Started =>
        /\ \A i \in PieceIdx :
              /\ (~downloaded[i] /\ downloaded'[i]) =>
                    \E w \in Workers :
                        /\ wpc[w] = "mark" /\ wpiece[w] = i
                        /\ SHA1(wbuf[w]) = Pieces(i)
                        /\ disk[i] = Written(wbuf[w])
              /\ disk'[i] # disk[i] =>
                    \E w \in Workers :
                        /\ wpc[w] = "write" /\ wpiece[w] = i
                        /\ SHA1(wbuf[w]) = Pieces(i)
        /\ \A w \in Workers :
              /\ (wpc[w] = "download" /\ wpc'[w] # "download"
                    /\ wpc'[w] # "errsend"
                    /\ SHA1(wbuf'[w]) # Pieces(wpiece[w])) =>
                    /\ wpc'[w] = "requeue"
                    /\ disk' = disk /\ downloaded' = downloaded
              /\ (wpc[w] = "requeue" /\ wpc'[w] # "requeue"
                    /\ wbuf[w] # NoBuf) =>
                    /\ SHA1(wbuf[w]) # Pieces(wpiece[w])
                    /\ pieceQueue' = Append(pieceQueue, wpiece[w])
                    /\ disk' = disk /\ downloaded' = downloaded]_vars

C4_Witness ==
    /\ Started /\ totalPieces = 2
    /\ downloaded[1] /\ ~downloaded[0] /\ disk[0] = Zeroed
    /\ pieceQueue = <<0>> /\ failures > 0
    /\ \A w \in Workers : wpc[w] = "recv"

\* C5: when every download delivers the intact buffer and every write
\* succeeds, then under fair scheduling the queue is closed, every worker
\* exits and startDownloadFromPeers returns nil with every downloaded[i] true.
C5_DeliverTerminates ==
    <>(/\ mainPc = "returned" /\ result = "nil"
       /\ queueClosed /\ AllDownloaded
       /\ \A w \in Workers : wpc[w] = "exit")

C5_Witness ==
    /\ mainPc = "returned" /\ result = "nil" /\ totalPieces = 2
    /\ numPeers = 2
    /\ queueClosed /\ AllDownloaded
    /\ \A w \in Workers : wpc[w] = "exit"

\* C21: the piece queue is closed at most once, only by a worker that has
\* just marked the last missing piece as downloaded, and once it is closed no
\* worker sends an index to it or closes it again, under every interleaving.
C21_QueueClosedOnceByLastMark ==
    [][Started =>
        /\ queueClosed' # queueClosed =>
              /\ ~queueClosed
              /\ \E w \in Workers :
                    /\ wpc[w] = "mark" /\ ~downloaded[wpiece[w]]
                    /\ downloaded' = [downloaded EXCEPT ![wpiece[w]] = TRUE]
              /\ \A i \in PieceIdx : downloaded'[i]
        /\ queueClosed =>
              \/ pieceQueue' = pieceQueue
              \/ pieceQueue # <<>> /\ pieceQueue' = Tail(pieceQueue)
        /\ \A w \in Workers : wpc'[w] # "panic"]_vars

C21_Witness ==
    /\ Started /\ queueClosed /\ totalPieces = 2 /\ failures > 0
    /\ \E w1, w2 \in Workers : wpc[w1] = "exit" /\ wpc[w2] = "recv"

\* The copies of index i in the queue, and the workers that hold i.
Copies(i) == Cardinality({k \in 1..Len(pieceQueue) : pieceQueue[k] = i})
Holders(i) == Cardinality({w \in Workers : wpiece[w] = i})

\* C22: for every piece index i the copies of i in the queue plus the workers
\* holding i number 1 while downloaded[i] is false and 0 once it is true; so
\* the queue never holds more than num_pieces entries and a re-enqueue never
\* blocks.
C22_TokenConservation ==
    Started =>
        /\ \A i \in PieceIdx :
              Copies(i) + Holders(i) = IF downloaded[i] THEN 0 ELSE 1
        /\ Len(pieceQueue) <= totalPieces
        /\ \A w \in Workers :
              wpc[w] = "requeue" => Len(pieceQueue) < totalPieces

C22_Witness ==
    /\ Started /\ totalPieces = 2 /\ ~downloaded[0] /\ ~downloaded[1]
    /\ Len(pieceQueue) = 1
    /\ \E w \in Workers : wpc[w] = "requeue" /\ wbuf[w] = NoBuf

\* A worker's attempt on piece i failed, and a worker has just taken i.
FailedOn(i) ==
    Started /\ \E w \in Workers : wpc[w] = "errsend" /\ wpiece[w] = i
TakenAgain(i) ==
    Started /\ \E w \in Workers : wpc[w] = "check" /\ wpiece[w] = i

\* C23: after a failed attempt on piece i (no peer delivered it, or
\* writePiece returned an error) i is put back in the queue with
\* downloaded[i] still false and the worker goes on to receive the next
\* index; under fair scheduling i is eventually taken again by some worker.
C23_FailedPieceIsRetried ==
    /\ [][Started =>
            \A w \in Workers :
                /\ (wpc[w] = "errsend" /\ wpc'[w] # "errsend") =>
                      wpc'[w] = "requeue" /\ wpiece'[w] = wpiece[w]
                /\ (wpc[w] = "requeue" /\ wpc'[w] # "requeue") =>
                      /\ pieceQueue' = Append(pieceQueue, wpiece[w])
                      /\ ~downloaded'[wpiece[w]]
                      /\ wpc'[w] = "recv"]_vars
    /\ \A i \in 0..(MaxPieces - 1) : FailedOn(i) ~> TakenAgain(i)

C23_Witness ==
    /\ Started /\ totalPieces = 1 /\ errChan = 1 /\ pieceQueue = <<>>
    /\ ~downloaded[0]
    /\ \E w \in Workers : wpc[w] = "check" /\ wpiece[w] = 0

-----------------------------------------------------------------------------
(* Claims on the writeback *)

\* C6: once writePiece has run for every piece of the buffer, in any order,
\* the files one after the other are the buffer, each file at its declared
\* length.
C6_WritebackYieldsBuffer ==
    (wfWritten = WbPieces /\ wfLens # <<>>) =>
        /\ ~wfPanic
        /\ Concat(wfContent) = Buffer(TotalLength(wfLens))
        /\ \A f \in 1..Len(wfLens) : Len(wfContent[f]) = wfLens[f]

\* The scenario of a piece over three files and a shorter last piece, all
\* pieces written.
C6_Witness ==
    /\ wfLens = <<1, 1, 2>> /\ wfPieceLength = 3
    /\ wfWritten = {0, 1}
    /\ wfContent = <<(<<1>>), (<<2>>), (<<3, 4>>)>>

\* The global offset of byte k (from 1) of file f, and the piece it is in.
GlobalOffset(f, k) == SumLens(wfLens, f) + k - 1
PieceAt(offset) == offset \div wfPieceLength

\* C39: writePiece for piece i with a buffer of the piece's length changes
\* only the bytes at the global offsets of piece i, each in the file that
\* holds the offset, at the offset less the file's start; every other byte
\* and every file's length stay as they are, so the files are what the set
\* of written pieces says, in whatever order they were written.
C39_WritePieceTouchesOwnBytes ==
    /\ [](\A f \in 1..Len(wfLens) :
            /\ Len(wfContent[f]) = wfLens[f]
            /\ \A k \in 1..wfLens[f] :
                  wfContent[f][k] =
                     IF PieceAt(GlobalOffset(f, k)) \in wfWritten
                       THEN Buffer(TotalLength(wfLens))[GlobalOffset(f, k) + 1]
                       ELSE 0)
    /\ [][\A i \in wfWritten' \ wfWritten :
            /\ ~wfPanic'
            /\ \A f \in 1..Len(wfLens) :
                  /\ Len(wfContent'[f]) = Len(wfContent[f])
                  /\ \A k \in 1..Len(wfContent[f]) :
                        wfContent'[f][k] =
                           IF PieceAt(GlobalOffset(f, k)) = i
                             THEN GlobalOffset(f, k) + 1
                             ELSE wfContent[f][k]]_vars

\* The second piece written before the first: its bytes at the end of the
\* second file and at the start of the third.
C39_Witness ==
    /\ wfLens = <<1, 2, 1>> /\ wfPieceLength = 2 /\ wfWritten = {1}
    /\ wfContent = <<(<<0>>), (<<0, 3>>), (<<4>>)>>

-----------------------------------------------------------------------------
(* Claims on the tracker fan-out *)

\* C7: when startDownloadFromPeers is called, every tracker goroutine has
\* finished and the peers map holds exactly one entry per distinct ip:port
\* of the successful replies, without the client's own address and without
\* 0.0.0.0.
C7_PeersAreUnionOfReplies ==
    dtPc = "called" =>
        /\ \A t \in Tasks : dtTask[t].pc = "done"
        /\ dtPeers = DtExpected

\* C26: during the fan-out the shared peers map is never accessed by two
\* tracker tasks at the same time, and each distinct ip:port is inserted and
\* passed to CreatePeer at most once, also when two trackers return the same
\* peer.
C26_MapAccessExclusive ==
    /\ Cardinality(dtWriters) <= 1
    /\ dtRaced = {}
    /\ \A key \in DOMAIN dtCreated : dtCreated[key] <= 1

\* C40: the stored tracker record a task updates, and to which it attaches
\* the peers it found, is the record of the announce URL of the tracker the
\* task queried, also when announce URLs before it in the announce list
\* were skipped for their scheme.
C40_RecordOfQueriedTracker ==
    \A a \in 1..Len(dtRecord) :
        (dtRecord[a].status # "announcing" \/ dtRecord[a].peers # {}) =>
            /\ dtAnnounce[a] = "valid"
            /\ dtRecord[a].by = a

-----------------------------------------------------------------------------
(* Claims on the peer iteration *)

\* C8: the connection of an attempt is closed whenever the attempt on that
\* peer has been left, on whatever path, and after the call has returned no
\* connection opened by it is open.
C8_ClosedOnEveryExit ==
    /\ \A k \in 1..cpPeers : cpExit[k] # "none" => cpConn[k] # "open"
    /\ cpPos = "returned" => \A k \in 1..cpPeers : cpConn[k] # "open"

\* The connections a call of downloadPieceFromPeers holds open.
OpenConnections == {k \in 1..cpPeers : cpConn[k] = "open"}

\* C33: a worker has at most one open peer connection at any moment: the
\* connection of a peer that failed or lacked the piece is closed before
\* the connection to the next candidate peer is opened.
C33_OneOpenConnection ==
    /\ [](Cardinality(OpenConnections) <= 1)
    /\ [][\A k \in 1..cpPeers :
            (cpConn[k] # "open" /\ cpConn'[k] = "open") =>
                OpenConnections = {}]_vars

-----------------------------------------------------------------------------
(* Claims on the verifier *)

\* C9: VerifyTorrent returns success if and only if all listed files exist
\* and every piece of the concatenation of the files in listed order, cut at
\* the total length, has the hash the metainfo lists for it.
C9_SuccessIffPiecesMatch ==
    vfResult \in {"ok", "missing", "corrupted", "panic"} =>
        (vfResult = "ok" <=> PiecesMatch)

-----------------------------------------------------------------------------
(* Claims on the metainfo *)

\* C10: for every document that decodes to a metainfo, the info hash is the
\* SHA-1 of exactly the bytes of the document that encode the info
\* dictionary.
C10_InfoHashOfOriginalBytes ==
    ihStatus = "ok" => ihHash = SHA1(InfoSlice(ihDoc))

-----------------------------------------------------------------------------
(* Claims on the codec *)

\* C11: for a well-formed document Decode reports the whole length and no
\* error, and Encode of the decoded value gives the document byte for byte;
\* for a value, Decode of its encoding gives the value.
C11_RoundTrip ==
    /\ (bcPc \in {"decoded", "encoded", "encode panicked"}
          /\ (bcValue # NilData \/ BcContent \in WellFormedDocs)) =>
            /\ bcOut.err = ""
            /\ bcOut.count = bcLen
            /\ bcPc # "encode panicked"
            /\ bcPc = "encoded" => bcBytes = BcContent
    /\ (bcPc \in {"decoded", "encoded"} /\ bcValue # NilData) =>
            bcOut.val = bcValue

C11_Witness ==
    /\ bcPc = "encoded"
    /\ bcValue = DictData([k \in {<<"a">>, <<"a", "b">>} |->
                             IF k = <<"a">> THEN IntData(0 - 42)
                             ELSE StrData(<<"1", ":", "i">>)])
    /\ bcBytes = BcContent
    /\ bcOut.val = bcValue

\* C12: for an integer with a leading zero and for minus zero Decode returns
\* an error and no integer; i42e and i-42e decode to 42 and -42.
C12_NonCanonicalIntegersRejected ==
    bcPc # "input" =>
        /\ BcContent \in NonCanonicalInts =>
              bcOut.err # "" /\ bcOut.val.t # "int"
        /\ BcContent = <<"i", "4", "2", "e">> =>
              bcOut.err = "" /\ bcOut.val = IntData(42)
        /\ BcContent = <<"i", "-", "4", "2", "e">> =>
              bcOut.err = "" /\ bcOut.val = IntData(0 - 42)

\* C13: for a malformed input Decode returns an error; it neither returns
\* with a nil error nor panics.
C13_MalformedGivesError ==
    (bcPc # "input" /\ BcContent \in Malformed) =>
        bcOut.err \notin {"", "panic"}

-----------------------------------------------------------------------------
(* Claims on the bitfield *)

\* C14: SetPiece(i) for 0 <= i < num_pieces sets bit 7 - i mod 8 of byte
\* i div 8, nothing else, and HasPiece(i) is true afterwards; for every other
\* index SetPiece changes nothing and HasPiece is false.
C14_BitfieldInRangeOnly ==
    /\ (bfSets > 0 /\ bfIndex >= 0 /\ bfIndex < bfNum) =>
          /\ HasPiece(bfBytes, bfIndex)
          /\ BitOf(bfBytes[(bfIndex \div BitsPerByte) + 1],
                   BitsPerByte - 1 - (bfIndex % BitsPerByte)) = 1
          /\ \A i \in 0..(bfNum - 1) :
                i # bfIndex => HasPiece(bfBytes, i) = HasPiece(bfBefore, i)
    /\ (bfSets > 0 /\ (bfIndex < 0 \/ bfIndex >= bfNum)) => bfBytes = bfBefore
    /\ \A i \in BfIndices(bfNum) :
          (i < 0 \/ i >= bfNum) => ~HasPiece(bfBytes, i)

-----------------------------------------------------------------------------
(* Claims on the framing *)

\* C15: a serialized message is the 4-byte big-endian length 1 + len(payload),
\* the id and the payload; keep-alive is four zero bytes; ReadMessage on the
\* bytes of a message with an id 0..9 returns the id and the payload and
\* consumes exactly those bytes.
C15_FramingRoundTrip ==
    /\ (msPc \in {"serialized", "read"} /\ msType # MsgKeepAlive) =>
          /\ Len(msWire) = 5 + Len(msPayload)
          /\ msWire[1] = 0 /\ msWire[2] = 0 /\ msWire[3] = 0
          /\ msWire[4] = 1 + Len(msPayload)
          /\ msWire[5] = msType
          /\ SubSeq(msWire, 6, Len(msWire)) = msPayload
    /\ (msPc \in {"serialized", "read"} /\ msType = MsgKeepAlive) =>
          msWire = <<0, 0, 0, 0>>
    /\ (msPc \in {"serialized", "read"} /\ msType = 4
          /\ msPayload = <<0, 0, 0, 5>>) =>
          msWire = <<0, 0, 0, 5, 4, 0, 0, 0, 5>>
    /\ (msPc \in {"serialized", "read"} /\ msType = 6
          /\ Len(msPayload) = 12) =>
          msWire = <<0, 0, 0, 13, 6, 0, 0, 0, 3, 0, 0, 0, 0, 0, 0, 64, 0>>
    /\ (msPc = "read" /\ msType \in MessageIds) =>
          /\ msRead.err = ""
          /\ msRead.type = msType
          /\ msRead.payload = msPayload
          /\ msRead.rest = msTrail

C15_Witness ==
    /\ msPc = "read"
    /\ msType = 6
    /\ Len(msPayload) = 12
    /\ msTrail = <<0, 0, 0, 0>>
    /\ msRead.payload = msPayload
    /\ msRead.rest = msTrail

-----------------------------------------------------------------------------
(* Claims on the handshake *)

\* C16: PerformHandshake returns an error when the peer's handshake carries
\* another protocol string or another info hash, and then neither Interested
\* nor a request is ever sent on the connection; when both match and the
\* handshakes are written and read in full it succeeds, whatever the peer
\* id and the reserved bytes are.
C16_HandshakeRejects ==
    hsPc # "handshake" =>
        /\ (hsPeer.pstr # ProtocolIdentifier \/ hsPeer.infoHash # OwnInfoHash)
              => hsResult # ""
        /\ hsResult # "" =>
              \A k \in 1..Len(hsSent) :
                  hsSent[k] \notin {"interested", "request"}
        /\ (hsPeer.pstr = ProtocolIdentifier /\ hsPeer.infoHash = OwnInfoHash
              /\ hsWriteOk /\ hsReply = HandshakeBytes(hsPeer))
              => hsResult = ""

C16_Witness ==
    /\ hsPc = "left"
    /\ hsPeer.pstr = ProtocolIdentifier
    /\ hsPeer.infoHash # OwnInfoHash
    /\ hsWriteOk /\ hsReply = HandshakeBytes(hsPeer)
    /\ hsResult = "infohash mismatch"
    /\ hsSent = <<"handshake">>

-----------------------------------------------------------------------------
(* Claims on the tracker factory *)

\* C17: NewTracker selects the variant by the scheme of the URL only: http
\* and https give an HTTP tracker, udp gives a UDP tracker, and every other
\* scheme, an empty or missing one included, gives an error and no tracker.
C17_VariantByScheme ==
    trPc = "returned" =>
        LET g == GetSchemeFrom(trAnnounce, 1)
            scheme == ToLower(g.scheme)
        IN  IF scheme \in {SchemeHttp, SchemeHttps}
              THEN trResult = [tracker |-> "http", err |-> ""]
            ELSE IF scheme = SchemeUdp
              THEN trResult = [tracker |-> "udp", err |-> ""]
            ELSE trResult.tracker = "none" /\ trResult.err # ""

-----------------------------------------------------------------------------
(* Claims on the end of DownloadTorrent *)

\* C18: DownloadTorrent ends with an error, and starts no download worker,
\* both when no announce URL yields a valid tracker and when the merged
\* peer set is empty after every tracker was queried.
C18_NoTrackerOrNoPeersIsError ==
    /\ (dtPc # "create" /\ Len(Trackers) = 0) => dtPc = "returned_err"
    /\ (dtPc \notin {"idle", "create", "wait"} /\ Len(Trackers) > 0
          /\ dtPeers = {}) => dtPc = "returned_err"
    /\ dtPc = "called" => dtPeers # {}

-----------------------------------------------------------------------------
(* Claims on piece accounting *)

\* C19: with piece_length > 0 and ceil(total_length / piece_length) pieces,
\* the length expected for piece i is piece_length for every i before the
\* last and total_length - (num_pieces - 1) * piece_length for the last, so
\* the expected lengths sum to total_length, also when total_length is an
\* exact multiple of piece_length.
C19_PieceLengthsSumToTotal ==
    paPc \in {"download", "done"} =>
        LET n == NumPieces(paLength, paPieceLength)
        IN  /\ \A k \in 1..Len(paExpected) :
                  paExpected[k] = IF k - 1 < n - 1 THEN paPieceLength
                                  ELSE paLength - (n - 1) * paPieceLength
            /\ paPc = "done" =>
                  Len(paExpected) = n /\ SumSeq(paExpected) = paLength

C19_Witness ==
    /\ paPc = "done"
    /\ paPieceLength = 2
    /\ paLength = 4
    /\ paExpected = <<2, 2>>

\* C20: for every file, FirstPieceIndex is floor(file_start / piece_length)
\* and LastPieceIndex is floor((file_start + length - 1) / piece_length),
\* file_start being the sum of the lengths of the files before it; two
\* adjacent files that share a piece both have its index in their range.
C20_FileRangesFromOffsets ==
    paPc \in {"download", "done"} =>
        \A f \in 1..Len(paFiles) :
            /\ paRanges[f].first = SumLens(paFiles, f) \div paPieceLength
            /\ paRanges[f].last =
                  (SumLens(paFiles, f) + paFiles[f] - 1) \div paPieceLength

-----------------------------------------------------------------------------
(* Claims on the completion write and the progress reporter *)

\* C24: when startDownloadFromPeers returns success the download record has
\* been stored with status Complete, progress 100 and a completion
\* timestamp, by a write made after every worker has exited; and the record
\* is never stored as Complete on a run that returns an error.
C24_CompleteStoredAfterWorkers ==
    /\ rpResult = "nil" =>
          \E k \in 1..Len(rpStore) :
              /\ rpStore[k].rec = [status |-> StatusComplete,
                                   progress |-> 100, completedAt |-> Now]
              /\ rpStore[k].workers = "exited"
    /\ rpResult = "incomplete" =>
          \A k \in 1..Len(rpStore) : rpStore[k].rec.status # StatusComplete

\* C25: the progress reporter never overwrites the final result: on a
\* successful run the last progress written to the store is 100, under
\* every interleaving of the reporter with the workers and the main task.
C25_LastProgressIsHundred ==
    rpResult = "nil" => rpStore[Len(rpStore)].rec.progress = 100

\* C37: the progress goroutine ends once every worker has ended: after the
\* last worker has exited the reporter stops sooner or later, and once
\* stopped it counts no more and writes nothing more to the store; while it
\* runs it counts the downloaded pieces only with the mutex held, and no
\* piece is marked meanwhile.
C37_ReporterStopsAfterWorkers ==
    /\ (rpWorkers = "exited") ~> (rpRepPc = "stopped")
    /\ [][/\ rpRepPc = "stopped" =>
                /\ rpRepPc' = "stopped"
                /\ UNCHANGED <<rpProgress, rpTicks>>
                /\ \/ rpStore' = rpStore
                   \/ /\ Len(rpStore') = Len(rpStore) + 1
                      /\ rpStore'[Len(rpStore')].by = "main"
          /\ rpProgress' # rpProgress => rpMutex = "reporter"
          /\ rpRepPc = "count" =>
                /\ rpMutex = "reporter"
                /\ rpCompleted' = rpCompleted
                /\ rpRepPc' = "assign" =>
                      rpProgress' = Percent(rpCompleted, rpTotal)]_vars

C37_Witness ==
    /\ rpRepPc = "stopped" /\ rpWorkers = "exited" /\ rpTicks = 2
    /\ Len(rpStore) = 2 /\ rpStore[2].by = "reporter"
    /\ rpStore[2].workers = "exited"

-----------------------------------------------------------------------------
(* Claims on the peer session *)

\* The request messages written so far, and the fields of a request.
Requests == SelectSeq(ssSent, LAMBDA w : w.type = MsgRequest)
RequestBegin(w) == Uint32(SubSeq(w.payload, 5, 8))
RequestLength(w) == Uint32(SubSeq(w.payload, 9, 12))

\* C27: the block requests sent and not yet answered by a piece message
\* never number more than MAX_BACKLOG = 5, whatever the peer sends, piece
\* messages that answer no request included; a request is sent only while
\* blocks remain un-requested, and the offsets 0, 16384, 32768, ... are
\* requested at most once each, the last block shortened to the piece end.
C27_OutstandingAtMostBacklog ==
    /\ Cardinality(ssOutstanding) <= MaxBacklog
    /\ Len(Requests) <= (ssPieceLength + BlockSize - 1) \div BlockSize
    /\ \A k \in 1..Len(Requests) :
          /\ RequestBegin(Requests[k]) = (k - 1) * BlockSize
          /\ RequestLength(Requests[k]) =
                Min(BlockSize, ssPieceLength - (k - 1) * BlockSize)

\* The last message read is a piece message for this piece that answers an
\* open request and fits the piece.
AnswerRead ==
    /\ ssReads' = ssReads + 1
    /\ ssLast'.type = MsgPiece /\ Len(ssLast'.head) = 8
    /\ Uint32(SubSeq(ssLast'.head, 1, 4)) = ssPieceIndex
    /\ Uint32(SubSeq(ssLast'.head, 5, 8)) \in ssOutstanding
    /\ Uint32(SubSeq(ssLast'.head, 5, 8)) + ssLast'.data.len <= ssPieceLength

\* C28: a session starts choked: no request is sent before an unchoke was
\* received, and after a choke none until the next unchoke; a choke leaves
\* the requests already sent as they are, and piece messages answering them
\* are still accepted.
C28_RequestsOnlyWhileUnchoked ==
    /\ [](ssLastChoke = "none" => ssChoked /\ Requests = <<>>)
    /\ [][/\ (Len(ssSent') > Len(ssSent)
                /\ ssSent'[Len(ssSent')].type = MsgRequest) =>
                ssLastChoke = "unchoke"
          /\ (ssReads' = ssReads + 1 /\ ssLast'.type = MsgChoke) =>
                /\ ssPc' = "loop"
                /\ UNCHANGED <<ssSent, ssRequestedBlocks, ssReceivedBlocks,
                               ssBacklog, ssOutstanding, ssPieceBuf>>
          /\ (AnswerRead /\ ssLastChoke = "choke") =>
                /\ ssPc' = "loop"
                /\ ssReceivedBlocks' = ssReceivedBlocks + 1
                /\ ssOutstanding' = ssOutstanding
                      \ {Uint32(SubSeq(ssLast'.head, 5, 8))}]_vars

C28_Witness ==
    /\ ssPc = "loop" /\ ssLastChoke = "choke" /\ ssChoked
    /\ ssLast.type = MsgPiece
    /\ ssRequestedBlocks = 5 /\ ssReceivedBlocks = 1
    /\ Cardinality(ssOutstanding) = 4

\* Bit 7 - i mod 8 of byte i div 8 is set.
BitSet(bf, i) ==
    /\ i \div 8 < Len(bf)
    /\ (bf[(i \div 8) + 1] \div Pow2(7 - (i % 8))) % 2 = 1

\* C29: if the peer's bitfield does not have the wanted piece after the
\* first message was processed, neither Interested nor a request is sent to
\* that peer in this attempt, and the next peer is tried.
C29_NoPieceNoInterest ==
    (ssPc \notin {"idle", "first"} /\ ~BitSet(ssBitfield, ssPieceIndex)) =>
        ssSent = <<>> /\ ssPc = "next peer"

C29_Witness ==
    /\ ssPc = "next peer" /\ ssSent = <<>>
    /\ ssLast.type = MsgBitfield
    /\ Len(ssBitfield) = 2 /\ ssBitfield # <<0, 0>>
    /\ ~BitSet(ssBitfield, ssPieceIndex)

\* Byte k of a slice kept as runs, counted from 0.
RECURSIVE ByteAt(_, _)
ByteAt(rs, k) ==
    IF k < Head(rs).len THEN Head(rs).fill
    ELSE ByteAt(Tail(rs), k - Head(rs).len)

\* C30: on a piece message in a session for piece p: with another index the
\* buffer, the byte count, the block count and the backlog stay as they are
\* and the session goes on; with index p and begin + len(data) beyond the
\* piece length the session fails and returns no buffer; otherwise the data
\* is copied to the buffer at begin and the backlog goes down by one.
C30_PieceMessageHandling ==
    [][(ssReads' = ssReads + 1 /\ ssLast'.type = MsgPiece
          /\ Len(ssLast'.head) = 8) =>
        LET index == Uint32(SubSeq(ssLast'.head, 1, 4))
            begin == Uint32(SubSeq(ssLast'.head, 5, 8))
            data == ssLast'.data
        IN  IF index # ssPieceIndex
              THEN /\ UNCHANGED <<ssPieceBuf, ssDownloadedBytes,
                                  ssReceivedBlocks, ssBacklog>>
                   /\ ssPc' = "loop"
            ELSE IF begin + data.len > ssPieceLength
              THEN /\ ssPc' = "failed"
                   /\ ssResult'.err # "" /\ ssResult'.buf = <<>>
            ELSE /\ ssBacklog' = ssBacklog - 1
                 /\ RunsLen(ssPieceBuf') = ssPieceLength
                 /\ \A k \in {0, begin - 1, begin, begin + data.len - 1,
                              begin + data.len, ssPieceLength - 1}
                              \cap (0..(ssPieceLength - 1)) :
                       ByteAt(ssPieceBuf', k) =
                          IF begin <= k /\ k < begin + data.len
                            THEN data.fill
                            ELSE ByteAt(ssPieceBuf, k)]_vars

C30_Witness ==
    /\ ssPc = "loop" /\ ssLast = PieceMsg(ssPieceIndex + 1, 0, Run(1, 255))
    /\ ssReceivedBlocks = 1 /\ ssBacklog = 4 /\ ssDownloadedBytes = BlockSize
    /\ ssPieceBuf = <<Run(BlockSize, 1), Run(5 * BlockSize, 0)>>

\* C31: a session returns the assembled buffer exactly when the bytes
\* received for the piece add up to the piece's length, however the peer
\* splits the data into piece messages: no buffer is returned while the
\* total differs, and once the total is reached the loop is over.
C31_ReturnsExactlyAtFullCount ==
    /\ ssPc = "returned" => ssDownloadedBytes = ssPieceLength
    /\ (ssPc = "loop" /\ ssDownloadedBytes = ssPieceLength) =>
          ssReceivedBlocks >= TotalBlocks(ssPieceLength)

\* The offsets of the buffer still holding the zero of make([]byte, n): the
\* data of the piece messages of the runs has no zero byte, so these are
\* the offsets no piece message covered.
RECURSIVE NeverReceived(_)
NeverReceived(rs) ==
    IF rs = <<>> THEN 0
    ELSE (IF Head(rs).fill = 0 THEN Head(rs).len ELSE 0)
            + NeverReceived(Tail(rs))

\* C32: when the session returns a buffer, every byte offset of the piece
\* was covered by the data of a received piece message of the right index,
\* also when the peer repeats blocks, sends overlapping blocks or blocks
\* that were not requested.
C32_ReturnedBufferFullyReceived ==
    ssPc = "returned" =>
        /\ RunsLen(ssResult.buf) = ssPieceLength
        /\ NeverReceived(ssResult.buf) = 0

\* C34: interested, not-interested, request, cancel, port or a keep-alive
\* read from the peer in the request loop leaves the session as it is: the
\* choked flag, the remote bitfield, the piece buffer, the byte count, the
\* counters of requested and received blocks and the backlog are unchanged,
\* nothing is written to the peer, and the session goes on.
C34_UnservedMessagesIgnored ==
    [][(ssPc = "loop" /\ ssReads' = ssReads + 1
          /\ ssLast'.type \in Unserved \cup {MsgKeepAlive}) =>
        /\ ssPc' = "loop"
        /\ UNCHANGED <<ssChoked, ssBitfield, ssPieceBuf, ssDownloadedBytes,
                       ssRequestedBlocks, ssReceivedBlocks, ssBacklog,
                       ssOutstanding, ssSent, ssResult>>]_vars

C34_Witness ==
    /\ ssPc = "loop" /\ ssLast.type = MsgCancel /\ ssReads = 3
    /\ ~ssChoked /\ ssReceivedBlocks = 1 /\ ssBacklog = 1
    /\ ssRequestedBlocks = 2

-----------------------------------------------------------------------------
(* Claims on the UDP tracker *)

\* The step a request or a response belongs to, by its place in the call.
StepAction(k) ==
    IF k = 1 THEN actionConnect ELSE IF k = 2 THEN actionScrape
    ELSE actionAnnounce

\* Response k of the call is the one its step expects: read, with the
\* transaction id of request k and the action of the step, and for the
\* announce made of whole peer records.
Expected(k) ==
    /\ utReplies[k].read
    /\ utReplies[k].transaction = utSent[k].transaction
    /\ utReplies[k].action = StepAction(k)
    /\ k = 3 => utReplies[k].rest = 0

\* C35: a UDP tracker exchange goes Disconnected -> Connected(connection_id)
\* -> AnnouncedPeers: scrape and announce are sent only after a connect
\* response with action 0 and the transaction id of the connect request,
\* and carry that response's connection id; if a step fails no later step
\* is sent, GetPeers returns the error with lastError set, and the socket
\* is closed.
C35_UdpExchangeInOrder ==
    /\ \A k \in 1..Len(utSent) : utSent[k].action = StepAction(k)
    /\ \A k \in 2..Len(utSent) :
          /\ Expected(1) /\ utReplies[1].action = 0
          /\ utSent[k].connectionID = utReplies[1].connectionID
    /\ \A k \in 1..Len(utReplies) : ~Expected(k) => Len(utSent) = k
    /\ (utPc \in {"returned", "panicked"}
          /\ ~(Len(utReplies) = 3 /\ \A k \in 1..3 : Expected(k))) =>
          /\ utResult.err # "" /\ utT.lastError = utResult.err
          /\ utSocket # "open"

\* C36: in each step a response whose transaction id is not the one sent
\* in the step's request gives a transaction-mismatch error, and the
\* tracker's connection id, seeders, leechers, peers and next-check time
\* stay as they were.
C36_MismatchChangesNothing ==
    [][(Len(utReplies') = Len(utReplies) + 1
          /\ utReplies'[Len(utReplies')].read
          /\ utReplies'[Len(utReplies')].transaction # Sent) =>
        /\ utPc' = "returned"
        /\ utResult'.err = "transaction ID mismatch"
        /\ utT'.lastError = "transaction ID mismatch"
        /\ utT'.connectionID = utT.connectionID
        /\ utT'.seeders = utT.seeders /\ utT'.leechers = utT.leechers
        /\ utT'.peers = utT.peers /\ utT'.nextCheck = utT.nextCheck]_vars

C36_Witness ==
    /\ utPc = "returned" /\ utResult.err = "transaction ID mismatch"
    /\ Len(utReplies) = 3 /\ utReplies[3].action = actionAnnounce
    /\ utReplies[3].peers = 2
    /\ utT.seeders = 3 /\ utT.leechers = 4 /\ utT.peers = <<>>
    /\ utT.connectionID \in ConnectionIDs

-----------------------------------------------------------------------------
(* Claims on the pre-allocation of the files *)

\* The file of entry k of the file list is on disk below downloadPath with
\* the length the entry declares.
Allocated(k) ==
    /\ FilePath(ceList[k].path)[1] # ".."
    /\ OnDisk(FilePath(ceList[k].path), ceList[k].length) \in ceFiles

\* C38: before any worker starts every file of the metainfo exists under
\* the output root with exactly its declared length; and if making the
\* directories, creating a file or truncating it fails for a file,
\* startDownloadFromPeers returns an error and no worker is started.
C38_FilesAllocatedBeforeWorkers ==
    /\ ceStarted => \A k \in 1..Len(ceList) : Allocated(k)
    /\ ceFailed =>
          /\ cePc = "returned" /\ ceResult = "failed to create files"
          /\ ~ceStarted

=============================================================================
